---- MODULE Spec2Model ----
(***************************************************************************)
(* A model of lem, the local env manager (package lem).                    *)
(*                                                                         *)
(* Strings are sequences of one-character strings, so that trimming,       *)
(* splitting, prefix tests, replacement and sorting are computed the way   *)
(* the Go code computes them.  A path string is a record                   *)
(* [abs, segs]: whether it starts with the separator, and its segments.    *)
(* A file system is a record [dirs, files]: the set of directories and a   *)
(* function from file paths to file contents (both keyed by the segments   *)
(* of the absolute path).  Symbolic links are not modelled: containment is *)
(* the lexical containment that resolvePath computes.                      *)
(***************************************************************************)
EXTENDS Integers, Sequences, FiniteSets, TLC

VARIABLES
    cfg,       \* the loaded Config: Stage, Group, path, dir, root
    store,     \* the stage state file: config path -> selected stage
    files,     \* the regular files of the file system: path -> content
    run,       \* the latest operation and the position of Run in its body
    written,   \* every path a Run has created or overwritten so far
    runs,      \* how many times Run was called
    probe,     \* arguments of a direct call of one of the package functions
    probeOut,  \* the result of that call
    procs,     \* the processes working on the stage state file
    watch      \* Config.Watch: its position, its watcher and what it has done

vars == <<cfg, store, files, run, written, runs, probe, probeOut, procs, watch>>

(***************************************************************************)
(* Bounds of the model.                                                    *)
(***************************************************************************)
MaxFileLen == 6     \* longest env file content given to readEnv directly
MaxValLen == 1      \* longest value in a mapping given to writeEnv directly
MaxKeyLen == 3      \* longest source key given to makeEnv directly
MaxDepth == 2       \* deepest configuration directory given to resolvePath

(***************************************************************************)
(* Strings.                                                                *)
(***************************************************************************)
Strs(alpha, n) == UNION {[1..k -> alpha] : k \in 0..n}

\* The grave accent character (byte 96), which a TLA+ string cannot hold.
Backtick == "grave"

\* Byte values of the characters the model uses (Go compares strings bytewise).
Ord(c) ==
    CASE c = "\t" -> 9
      [] c = "\n" -> 10
      [] c = "\r" -> 13
      [] c = " " -> 32
      [] c = "\"" -> 34
      [] c = "#" -> 35
      [] c = "'" -> 39
      [] c = "-" -> 45
      [] c = "." -> 46
      [] c = "1" -> 49
      [] c = "2" -> 50
      [] c = ":" -> 58
      [] c = "=" -> 61
      [] c = ">" -> 62
      [] c = "A" -> 65
      [] c = "B" -> 66
      [] c = "L" -> 76
      [] c = "U" -> 85
      [] c = "X" -> 88
      [] c = "_" -> 95
      [] c = Backtick -> 96
      [] c = "a" -> 97
      [] c = "b" -> 98
      [] c = "c" -> 99
      [] c = "d" -> 100
      [] c = "e" -> 101
      [] c = "g" -> 103
      [] c = "i" -> 105
      [] c = "j" -> 106
      [] c = "l" -> 108
      [] c = "n" -> 110
      [] c = "o" -> 111
      [] c = "p" -> 112
      [] c = "r" -> 114
      [] c = "s" -> 115
      [] c = "t" -> 116
      [] c = "u" -> 117
      [] c = "w" -> 119

\* a < b for Go strings.
StrLess(a, b) ==
    \E i \in 1..Len(b) :
        /\ i <= Len(a) + 1
        /\ \A j \in 1..(i - 1) : a[j] = b[j]
        /\ (i = Len(a) + 1 \/ Ord(a[i]) < Ord(b[i]))

\* unicode.IsSpace, on the characters of the model.
IsSpace(c) == c \in {" ", "\t", "\n", "\r"}

HasPrefix(s, p) == Len(p) <= Len(s) /\ SubSeq(s, 1, Len(p)) = p

RECURSIVE TrimLeft(_)
TrimLeft(s) ==
    IF s # <<>> /\ IsSpace(Head(s)) THEN TrimLeft(Tail(s)) ELSE s

RECURSIVE TrimRight(_)
TrimRight(s) ==
    IF s # <<>> /\ IsSpace(s[Len(s)])
    THEN TrimRight(SubSeq(s, 1, Len(s) - 1))
    ELSE s

TrimSpace(s) == TrimRight(TrimLeft(s))

\* 1-based index of the first occurrence of sub in s, 0 when there is none.
Index(s, sub) ==
    LET At(i) == SubSeq(s, i, i + Len(sub) - 1) = sub
        I == {i \in 1..(Len(s) - Len(sub) + 1) : At(i)}
    IN IF I = {} THEN 0 ELSE CHOOSE i \in I : \A j \in I : i <= j

\* 1-based index of the last occurrence of sub in s, 0 when there is none.
LastIndex(s, sub) ==
    LET At(i) == SubSeq(s, i, i + Len(sub) - 1) = sub
        I == {i \in 1..(Len(s) - Len(sub) + 1) : At(i)}
    IN IF I = {} THEN 0 ELSE CHOOSE i \in I : \A j \in I : i >= j

\* A variant of SplitN2 that splits at the last separator.
SplitLast2(s, sep) ==
    LET i == LastIndex(s, sep)
    IN IF i = 0 THEN <<s>>
       ELSE <<SubSeq(s, 1, i - 1), SubSeq(s, i + Len(sep), Len(s))>>

\* strings.SplitN(s, sep, 2)
SplitN2(s, sep) ==
    LET i == Index(s, sep)
    IN IF i = 0 THEN <<s>>
       ELSE <<SubSeq(s, 1, i - 1), SubSeq(s, i + Len(sep), Len(s))>>

\* strings.ReplaceAll for a non-empty old, used by a variant of replaceable.
RECURSIVE ReplaceAll(_, _, _)
ReplaceAll(s, old, new) ==
    LET i == Index(s, old)
    IN IF i = 0 \/ old = <<>> THEN s
       ELSE SubSeq(s, 1, i - 1) \o new
            \o ReplaceAll(SubSeq(s, i + Len(old), Len(s)), old, new)

\* strings.Replace(s, old, new, 1)
Replace1(s, old, new) ==
    LET i == Index(s, old)
    IN IF i = 0 THEN s
       ELSE SubSeq(s, 1, i - 1) \o new \o SubSeq(s, i + Len(old), Len(s))

(***************************************************************************)
(* Go maps, as functions.                                                  *)
(***************************************************************************)
EmptyMap == [x \in {} |-> <<>>]

Put(e, k, v) == [x \in DOMAIN e \cup {k} |-> IF x = k THEN v ELSE e[x]]

Range(s) == {s[i] : i \in DOMAIN s}

\* The orders in which a range loop may visit the keys of a map.
Orders(S) == {o \in [1..Cardinality(S) -> S] : Range(o) = S}

(***************************************************************************)
(* Env codec: readEnv and writeEnv.                                        *)
(***************************************************************************)
dropCR(s) ==
    IF s # <<>> /\ s[Len(s)] = "\r" THEN SubSeq(s, 1, Len(s) - 1) ELSE s

\* bufio.Scanner with the default split function (bufio.ScanLines).
RECURSIVE ScanLines(_)
ScanLines(data) ==
    IF data = <<>> THEN <<>>
    ELSE LET nl == Index(data, <<"\n">>)
         IN IF nl = 0 THEN <<dropCR(data)>>
            ELSE <<dropCR(SubSeq(data, 1, nl - 1))>>
                 \o ScanLines(SubSeq(data, nl + 1, Len(data)))

\* A variant of readLoop in which the first line of a key wins.
RECURSIVE readLoopFirstWins(_, _, _)
readLoopFirstWins(lines, env, i) ==
    IF lines = <<>> THEN [env |-> env, n |-> i]
    ELSE LET line == TrimSpace(Head(lines))
             kv == SplitN2(line, <<"=">>)
             k == TrimSpace(kv[1])
         IN IF line = <<>> \/ HasPrefix(line, <<"#">>) \/ Len(kv) # 2
            THEN readLoopFirstWins(Tail(lines), env, i)
            ELSE readLoopFirstWins(Tail(lines),
                     IF k \in DOMAIN env THEN env
                     ELSE Put(env, k, TrimSpace(kv[2])), i + 1)

\* The scanning loop of readEnv.
RECURSIVE readLoop(_, _, _)
readLoop(lines, env, i) ==
    IF lines = <<>> THEN [env |-> env, n |-> i]
    ELSE LET line == TrimSpace(Head(lines))
         IN IF line = <<>> \/ HasPrefix(line, <<"#">>)
            THEN readLoop(Tail(lines), env, i)
            ELSE LET kv == SplitN2(line, <<"=">>)
                 IN IF Len(kv) = 2
                    THEN readLoop(Tail(lines),
                             Put(env, TrimSpace(kv[1]), TrimSpace(kv[2])),
                             i + 1)
                    ELSE readLoop(Tail(lines), env, i)

\* readEnv(path, size) on the file system fsys; size is a capacity hint only.
readEnv(fsys, path) ==
    IF path \notin DOMAIN fsys.files
    THEN [env |-> EmptyMap, n |-> 0, err |-> "ErrOpen"]
    ELSE LET r == readLoop(ScanLines(fsys.files[path]), EmptyMap, 0)
         IN [env |-> r.env, n |-> r.n, err |-> ""]

\* A variant of Sort that sorts in descending order.
RECURSIVE SortDescending(_)
SortDescending(S) ==
    IF S = {} THEN <<>>
    ELSE LET m == CHOOSE x \in S : \A y \in S \ {x} : StrLess(y, x)
         IN <<m>> \o SortDescending(S \ {m})

\* slices.Sort on a slice of distinct strings.
RECURSIVE Sort(_)
Sort(S) ==
    IF S = {} THEN <<>>
    ELSE LET m == CHOOSE x \in S : \A y \in S \ {x} : StrLess(x, y)
         IN <<m>> \o Sort(S \ {m})

RECURSIVE formatLines(_, _)
formatLines(keys, env) ==
    IF keys = <<>> THEN <<>>
    ELSE Head(keys) \o <<"=">> \o env[Head(keys)] \o <<"\n">>
         \o formatLines(Tail(keys), env)

\* A variant of formatEnv with the keys in descending order.
formatEnvDescending(env) == formatLines(SortDescending(DOMAIN env), env)

\* The bytes writeEnv sends to the file: the sorted keys, one Fprintf each.
formatEnv(env) == formatLines(Sort(DOMAIN env), env)

(***************************************************************************)
(* Paths (package path/filepath, Unix) and the file system.                *)
(***************************************************************************)
Path(abs, segs) == [abs |-> abs, segs |-> segs]

IsAbs(p) == p.abs

RECURSIVE CleanSegs(_, _, _)
CleanSegs(abs, in, out) ==
    IF in = <<>> THEN out
    ELSE LET s == Head(in)
             r == Tail(in)
         IN IF s = "." \/ s = "" THEN CleanSegs(abs, r, out)
            ELSE IF s = ".."
            THEN IF out # <<>> /\ out[Len(out)] # ".."
                 THEN CleanSegs(abs, r, SubSeq(out, 1, Len(out) - 1))
                 ELSE IF abs THEN CleanSegs(abs, r, out)
                 ELSE CleanSegs(abs, r, Append(out, ".."))
            ELSE CleanSegs(abs, r, Append(out, s))

\* filepath.Clean; the cleaned "." is the relative path without segments.
Clean(p) == Path(p.abs, CleanSegs(p.abs, p.segs, <<>>))

\* filepath.Join(a, b): empty elements are ignored, the result is cleaned.
Join(a, b) ==
    IF ~a.abs /\ a.segs = <<>> THEN Clean(b)
    ELSE Clean(Path(a.abs, a.segs \o b.segs))

\* filepath.Dir
Dir(p) ==
    LET c == Clean(p)
    IN IF c.segs = <<>> THEN c
       ELSE Clean(Path(c.abs, SubSeq(c.segs, 1, Len(c.segs) - 1)))

CommonLen(a, b) ==
    LET N == {n \in 0..Len(a) : n <= Len(b) /\ \A i \in 1..n : a[i] = b[i]}
    IN CHOOSE n \in N : \A m \in N : m <= n

\* filepath.Rel(basepath, targpath)
Rel(basepath, targpath) ==
    LET base == Clean(basepath)
        targ == Clean(targpath)
        n == CommonLen(base.segs, targ.segs)
        brest == SubSeq(base.segs, n + 1, Len(base.segs))
        trest == SubSeq(targ.segs, n + 1, Len(targ.segs))
    IN IF base.abs # targ.abs THEN [err |-> TRUE, segs |-> <<>>]
       ELSE IF brest # <<>> /\ brest[1] = ".." THEN [err |-> TRUE, segs |-> <<>>]
       ELSE [err |-> FALSE, segs |-> [i \in 1..Len(brest) |-> ".."] \o trest]

\* The segment names of the model whose text begins with two dots.
DotDotNames == {"..", "..data"}

\* strings.HasPrefix(relPath, "..") for the relative path with segments segs
\* (a path without segments is the string ".").
HasDotDotPrefix(segs) == segs # <<>> /\ segs[1] \in DotDotNames

\* os.Stat: symbolic links are not modelled; relative paths are not looked up.
Stat(fsys, p) ==
    IF ~p.abs THEN "missing"
    ELSE IF p.segs \in fsys.dirs THEN "dir"
    ELSE IF p.segs \in DOMAIN fsys.files THEN "file"
    ELSE "missing"

NoPath == Path(FALSE, <<>>)

gitDir == Path(FALSE, <<".git">>)

RECURSIVE projectRootFrom(_, _, _)
projectRootFrom(fsys, current, baseDir) ==
    IF Stat(fsys, Join(current, gitDir)) = "dir" THEN current
    ELSE LET parent == Dir(current)
         IN IF parent = current THEN baseDir
            ELSE projectRootFrom(fsys, parent, baseDir)

\* projectRoot(baseDir)
projectRoot(fsys, baseDir) == projectRootFrom(fsys, Clean(baseDir), baseDir)

\* A variant of resolvePath that calls os.Stat before the containment test.
resolvePathStatFirst(c, fsys, path) ==
    LET absPath == IF IsAbs(path) THEN Clean(path) ELSE Clean(Join(c.dir, path))
        rel == Rel(c.root, absPath)
        st == Stat(fsys, absPath)
    IN IF st = "missing"
       THEN [path |-> NoPath, isDir |-> FALSE, err |-> "ErrStat"]
       ELSE IF rel.err
       THEN [path |-> NoPath, isDir |-> FALSE, err |-> "ErrRel"]
       ELSE IF HasDotDotPrefix(rel.segs)
       THEN [path |-> NoPath, isDir |-> FALSE, err |-> "ErrOutsideRoot"]
       ELSE [path |-> absPath, isDir |-> st = "dir", err |-> ""]

\* A variant of resolvePath without the containment test.
resolvePathUnchecked(c, fsys, path) ==
    LET absPath == IF IsAbs(path) THEN Clean(path) ELSE Clean(Join(c.dir, path))
        st == Stat(fsys, absPath)
    IN IF st = "missing"
       THEN [path |-> NoPath, isDir |-> FALSE, err |-> "ErrStat"]
       ELSE [path |-> absPath, isDir |-> st = "dir", err |-> ""]

\* Config.resolvePath on the configuration c (its dir and root).
resolvePath(c, fsys, path) ==
    LET absPath == IF IsAbs(path) THEN Clean(path) ELSE Clean(Join(c.dir, path))
        rel == Rel(c.root, absPath)
    IN IF rel.err
       THEN [path |-> NoPath, isDir |-> FALSE, err |-> "ErrRel"]
       ELSE IF HasDotDotPrefix(rel.segs)
       THEN [path |-> NoPath, isDir |-> FALSE, err |-> "ErrOutsideRoot"]
       ELSE LET st == Stat(fsys, absPath)
            IN IF st = "missing"
               THEN [path |-> NoPath, isDir |-> FALSE, err |-> "ErrStat"]
               ELSE [path |-> absPath, isDir |-> st = "dir", err |-> ""]

(***************************************************************************)
(* Group partitioner: makeEnv.                                             *)
(***************************************************************************)
Sep == <<"_">>

\* A variant of replaceable that replaces every occurrence of the prefix.
RECURSIVE replaceableAll(_, _, _, _, _)
replaceableAll(group, prefixes, k, v, e) ==
    IF prefixes = <<>> THEN e
    ELSE replaceableAll(group, Tail(prefixes), k, v,
             IF HasPrefix(k, Head(prefixes) \o Sep)
             THEN Put(e, ReplaceAll(k, Head(prefixes), group.Prefix), v)
             ELSE e)

\* The loop over group.Replaceable for one source pair (k, v).
RECURSIVE replaceable(_, _, _, _, _)
replaceable(group, prefixes, k, v, e) ==
    IF prefixes = <<>> THEN e
    ELSE replaceable(group, Tail(prefixes), k, v,
             IF HasPrefix(k, Head(prefixes) \o Sep)
             THEN Put(e, Replace1(k, Head(prefixes), group.Prefix), v)
             ELSE e)

\* The body of the loop of makeEnv for one source pair (k, v).
makeEnvStep(group, k, v, e) ==
    LET e1 == IF HasPrefix(k, group.Prefix \o Sep) THEN Put(e, k, v) ELSE e
        e2 == replaceable(group, group.Replaceable, k, v, e1)
    IN IF k \in Range(group.Plain) THEN Put(e2, k, v) ELSE e2

RECURSIVE makeEnvLoop(_, _, _, _)
makeEnvLoop(group, base, order, e) ==
    IF order = <<>> THEN e
    ELSE makeEnvLoop(group, base, Tail(order),
             makeEnvStep(group, Head(order), base[Head(order)], e))

\* makeEnv(group, base, size), the range loop visiting the keys of base in
\* the given order; size is a capacity hint only.
makeEnv(group, base, order) == makeEnvLoop(group, base, order, EmptyMap)

(***************************************************************************)
(* Configuration model: validation, the stage store, Run.                  *)
(***************************************************************************)
Err(e) == [path |-> NoPath, err |-> e]

\* Config.validateStageTable
validateStageTable(c) ==
    IF DOMAIN c.Stage = {} THEN "ErrStageTableEmpty" ELSE ""

\* Config.validateGroupTable
validateGroupTable(c) ==
    IF DOMAIN c.Group = {} THEN "ErrGroupTableEmpty" ELSE ""

\* Config.validateStagePair
validateStagePair(c, fsys, stage) ==
    IF stage \notin DOMAIN c.Stage THEN Err("ErrStageNotSet")
    ELSE LET r == resolvePath(c, fsys, c.Stage[stage])
         IN IF r.err # "" THEN Err(r.err)
            ELSE IF r.isDir THEN Err("ErrStageIsDirectory")
            ELSE [path |-> r.path, err |-> ""]

\* A variant of validateGroupPair without the loop over the direnv entries.
validateGroupPairNoRefs(c, fsys, id, group) ==
    IF group.Prefix = <<>> THEN Err("ErrPrefixNotSet")
    ELSE IF group.Dir = NoPath THEN Err("ErrDirNotSet")
    ELSE LET r == resolvePath(c, fsys, group.Dir)
         IN IF r.err # "" THEN Err(r.err)
            ELSE IF ~r.isDir THEN Err("ErrNotADirectory")
            ELSE IF <<>> \in Range(group.Replaceable) THEN Err("ErrReplaceEmpty")
            ELSE IF <<>> \in Range(group.Plain) THEN Err("ErrPlainEmpty")
            ELSE IF "" \in Range(group.DirenvSupport) THEN Err("ErrDirenvEmpty")
            ELSE [path |-> r.path, err |-> ""]

\* Config.validateGroupPair
validateGroupPair(c, fsys, id, group) ==
    IF group.Prefix = <<>> THEN Err("ErrPrefixNotSet")
    ELSE IF group.Dir = NoPath THEN Err("ErrDirNotSet")
    ELSE LET r == resolvePath(c, fsys, group.Dir)
         IN IF r.err # "" THEN Err(r.err)
            ELSE IF ~r.isDir THEN Err("ErrNotADirectory")
            ELSE IF <<>> \in Range(group.Replaceable) THEN Err("ErrReplaceEmpty")
            ELSE IF <<>> \in Range(group.Plain) THEN Err("ErrPlainEmpty")
            ELSE IF "" \in Range(group.DirenvSupport) THEN Err("ErrDirenvEmpty")
            ELSE IF \E i \in DOMAIN group.DirenvSupport :
                        group.DirenvSupport[i] \notin DOMAIN c.Group
            THEN Err("ErrInvalidID")
            ELSE [path |-> r.path, err |-> ""]

\* Config.loadStage; st is the state file: whether it exists, the form of its
\* content ("json", or "empty" and "corrupt", which json.Unmarshal rejects),
\* and the mapping that a content of the form "json" holds.
loadStage(c, st) ==
    IF ~st.exists THEN [stage |-> "", err |-> "ErrReadState"]
    ELSE IF st.form # "json" THEN [stage |-> "", err |-> "ErrUnmarshal"]
    ELSE IF c.path.segs \notin DOMAIN st.m
    THEN [stage |-> "", err |-> "ErrNoStageStored"]
    ELSE IF "stage" \notin DOMAIN st.m[c.path.segs]
    THEN [stage |-> "", err |-> "ErrNoStageValue"]
    ELSE [stage |-> st.m[c.path.segs].stage, err |-> ""]

\* The text of a relative path: its segments joined by the separator.
RECURSIVE PathText(_)
PathText(segs) ==
    IF segs = <<>> THEN <<".">>
    ELSE IF Len(segs) = 1 THEN <<segs[1]>>
    ELSE <<segs[1], "/">> \o PathText(Tail(segs))

\* The value cfg.Group[target] of a Go map: the zero Group for a missing key.
ZeroGroup ==
    [Prefix |-> <<>>, Dir |-> NoPath, Replaceable |-> <<>>, Plain |-> <<>>,
     DirenvSupport |-> <<>>, IsCheck |-> FALSE]

groupOf(c, id) == IF id \in DOMAIN c.Group THEN c.Group[id] ELSE ZeroGroup

\* The loop of createEnvrc over group.DirenvSupport, building the text b.
RECURSIVE envrcText(_, _, _, _, _)
envrcText(c, fsys, targets, dir, b) ==
    IF targets = <<>> THEN [err |-> "", b |-> b]
    ELSE LET r == resolvePath(c, fsys, groupOf(c, Head(targets)).Dir)
             rel == Rel(dir, r.path)
         IN IF r.err # "" THEN [err |-> r.err, b |-> b]
            ELSE IF ~r.isDir THEN [err |-> "ErrNotADirectory", b |-> b]
            ELSE IF rel.err THEN [err |-> "ErrRel", b |-> b]
            ELSE envrcText(c, fsys, Tail(targets), dir,
                     b \o <<"watch_file ">> \o PathText(rel.segs) \o <<"/.env\n">>
                       \o <<"dotenv_if_exists ">> \o PathText(rel.segs)
                       \o <<"/.env\n">>)

\* A variant of writeEnvrc that writes the text built so far when the loop
\* over the peers failed.
writeEnvrcPartial(fsys, dest, t, fault) ==
    IF fault.kind = "envrc"
    THEN [files |-> fsys.files, err |-> "ErrWriteEnvrc", wrote |-> <<>>]
    ELSE [files |-> Put(fsys.files, dest.segs, t.b), err |-> t.err,
          wrote |-> <<dest.segs>>]

\* The end of createEnvrc: os.WriteFile of the text t.b to dest; fault "envrc"
\* is os.WriteFile failing to open the file.
writeEnvrc(fsys, dest, t, fault) ==
    IF t.err # "" THEN [files |-> fsys.files, err |-> t.err, wrote |-> <<>>]
    ELSE IF fault.kind = "envrc"
    THEN [files |-> fsys.files, err |-> "ErrWriteEnvrc", wrote |-> <<>>]
    ELSE [files |-> Put(fsys.files, dest.segs, t.b), err |-> "",
          wrote |-> <<dest.segs>>]

\* Config.createEnvrc
createEnvrc(c, fsys, group, dir, fault) ==
    writeEnvrc(fsys, Join(dir, Path(FALSE, <<".envrc">>)),
               envrcText(c, fsys, group.DirenvSupport, dir, <<>>), fault)

\* A variant of writeEnv that opens the file for appending.
writeEnvAppend(fsys, path, env, fault) ==
    LET text == formatEnv(env)
        had == IF path.segs \in DOMAIN fsys.files
               THEN fsys.files[path.segs] ELSE <<>>
    IN IF fault.kind # "none"
       THEN [files |-> fsys.files, err |-> "ErrCreate", wrote |-> <<>>]
       ELSE [files |-> Put(fsys.files, path.segs, had \o text), err |-> "",
             wrote |-> <<path.segs>>]

\* writeEnv(path, env); fault "create" is os.Create failing; fault "flush" is
\* the flush failing after os.Create truncated the file, which leaves at most
\* fault.n of the bytes and not all of them (without bytes nothing is flushed).
writeEnv(fsys, path, env, fault) ==
    LET text == formatEnv(env)
    IN IF fault.kind = "create"
       THEN [files |-> fsys.files, err |-> "ErrCreate", wrote |-> <<>>]
       ELSE IF fault.kind = "flush" /\ text # <<>>
       THEN [files |-> Put(fsys.files, path.segs,
                           SubSeq(text, 1, IF fault.n < Len(text)
                                           THEN fault.n ELSE Len(text) - 1)),
             err |-> "ErrFlush", wrote |-> <<path.segs>>]
       ELSE [files |-> Put(fsys.files, path.segs, text), err |-> "",
             wrote |-> <<path.segs>>]

\* A variant of IsEmptyValue that knows the zero-length value only.
IsEmptyValueZeroOnly(v) == v = <<>>

\* The empty-value test applied to each value of a checked group.
IsEmptyValue(v) ==
    \/ v = <<>>
    \/ v = <<"'", "'">>
    \/ v = <<"\"", "\"">>
    \/ v = <<Backtick, Backtick>>

NoPrelude == [err |-> "", stage |-> "", path |-> NoPath, env |-> EmptyMap]

\* Run from readEnv to the loop; sp is what validateStagePair returned.
preludeEnv(stage, sp, re) ==
    IF re.err # "" THEN [NoPrelude EXCEPT !.err = re.err, !.stage = stage]
    ELSE [err |-> "", stage |-> stage, path |-> sp.path, env |-> re.env]

\* Run from validateStagePair to the loop; ls is what loadStage returned.
preludePath(c, fsys, ls, sp) ==
    IF sp.err # "" THEN [NoPrelude EXCEPT !.err = sp.err, !.stage = ls.stage]
    ELSE IF validateGroupTable(c) # ""
    THEN [NoPrelude EXCEPT !.err = validateGroupTable(c), !.stage = ls.stage]
    ELSE preludeEnv(ls.stage, sp, readEnv(fsys, sp.path.segs))

\* Run from loadStage to the loop.
preludeStage(c, fsys, ls) ==
    IF ls.err # "" THEN [NoPrelude EXCEPT !.err = ls.err]
    ELSE preludePath(c, fsys, ls, validateStagePair(c, fsys, ls.stage))

\* The part of Run before the loop: the stage, its path, the central env.
runPrelude(c, st, fsys) ==
    IF validateStageTable(c) # ""
    THEN [NoPrelude EXCEPT !.err = validateStageTable(c)]
    ELSE preludeStage(c, fsys, loadStage(c, st))

\* What makeEnv may return for a group, over the orders of the range loop.
makeEnvResults(group, base) ==
    {makeEnv(group, base, order) : order \in Orders(DOMAIN base)}

(***************************************************************************)
(* The repository the model runs in, and the configurations it loads.      *)
(***************************************************************************)
MaxFlushed == 1     \* most bytes a failing flush leaves in the file
MaxRuns == 3        \* calls of Run in one behaviour

Dirs ==
    {<<>>, <<"repo">>, <<"repo", ".git">>, <<"repo", "conf">>,
     <<"repo", "api">>, <<"repo", "ui">>, <<"out">>}

ConfigPath == Path(TRUE, <<"repo", "conf", "lem.toml">>)

CentralPath == <<"repo", "conf", ".env">>

\* The part of Load after decoding: path, dir and root of the Config.
Load(fsys, absPath, doc) ==
    [Stage |-> doc.Stage, Group |-> doc.Group, path |-> absPath,
     dir |-> Dir(absPath), root |-> projectRoot(fsys, Dir(absPath))]

Line(k, v) == k \o <<"=">> \o v \o <<"\n">>

KeyAX == <<"A", "_", "X">>
KeyUX == <<"U", "_", "X">>
KeyLX == <<"L", "_", "X">>
KeyB == <<"B">>

\* Contents of the central env file.
Centrals ==
    {Line(KeyAX, <<"1">>) \o Line(KeyUX, <<"2">>) \o Line(KeyB, <<"1">>),
     Line(KeyAX, <<"1">>) \o Line(KeyLX, <<"2">>),
     Line(KeyAX, <<>>) \o Line(KeyUX, <<"'", "'">>),
     Line(KeyAX, <<"\"", "\"">>) \o Line(KeyUX, <<Backtick, Backtick>>),
     <<>>}

Rel1(a) == Path(FALSE, a)

ApiGroups ==
    {[Prefix |-> <<"A">>, Dir |-> Rel1(<<"..", "api">>), Replaceable |-> r,
      Plain |-> <<>>, DirenvSupport |-> e[1], IsCheck |-> e[2]] :
        r \in {<<>>, <<<<"L">>>>},
        e \in {<<<<>>, FALSE>>, <<<<"ui", "api">>, TRUE>>}}

UiGroups ==
    {[Prefix |-> <<"U">>, Dir |-> d, Replaceable |-> <<<<"L">>>>,
      Plain |-> <<KeyB>>, DirenvSupport |-> <<>>, IsCheck |-> TRUE] :
        d \in {Path(TRUE, <<"repo", "ui">>), Rel1(<<"..", "api">>),
               Rel1(<<"..", "..", "out">>), Path(TRUE, <<"out">>),
               Rel1(<<"..", "nope">>)}}

\* A group delivering into the directory of the central env file.
HereGroup ==
    [Prefix |-> <<"A">>, Dir |-> Rel1(<<".">>), Replaceable |-> <<>>,
     Plain |-> <<>>, DirenvSupport |-> <<>>, IsCheck |-> FALSE]

StageTable == "default" :> Rel1(<<".env">>)

GroupTables ==
    {("api" :> a) @@ ("ui" :> u) : a \in ApiGroups, u \in UiGroups}
    \cup {("api" :> HereGroup) @@ ("ui" :> u) :
             u \in {v \in UiGroups : v.Dir = Path(TRUE, <<"repo", "ui">>)}}
    \cup {EmptyMap}

\* The value stored for a configuration path: {"stage": name}.
Selection(stage) == [stage |-> stage]

\* The length of the text of an absolute path.
RECURSIVE pathLen(_)
pathLen(segs) ==
    IF segs = <<>> THEN 0 ELSE 1 + Len(Head(segs)) + pathLen(Tail(segs))

\* The bytes of one entry in the text of json.MarshalIndent(state, "", "  "):
\* the key line, the line of the stage field, the closing line.
entrySize(k, v) ==
    IF "stage" \in DOMAIN v
    THEN (pathLen(k) + 7) + 1 + (Len(v.stage) + 15) + 1 + 3
    ELSE pathLen(k) + 8

RECURSIVE entriesSize(_, _)
entriesSize(m, keys) ==
    IF keys = {} THEN 0
    ELSE LET k == CHOOSE x \in keys : TRUE
         IN entrySize(k, m[k]) + entriesSize(m, keys \ {k})

\* len(b) for b, err := json.MarshalIndent(state, "", "  ")
jsonSize(m) ==
    IF DOMAIN m = {} THEN 2
    ELSE 4 + 2 * (Cardinality(DOMAIN m) - 1) + entriesSize(m, DOMAIN m)

\* The state file with the mapping m as its content.
StateFile(m) ==
    [exists |-> TRUE, form |-> "json", m |-> m, size |-> jsonSize(m)]

Selected == StateFile(Put(EmptyMap, ConfigPath.segs, Selection("default")))

NoStateFile == [exists |-> FALSE, form |-> "none", m |-> EmptyMap, size |-> 0]

\* The documents and state files the model starts from.
Starts ==
    {[doc |-> [Stage |-> StageTable, Group |-> g], st |-> Selected] :
        g \in GroupTables}
    \cup {[doc |-> [Stage |-> EmptyMap, Group |-> g], st |-> Selected] :
             g \in {h \in GroupTables : h = EmptyMap}}
    \cup {[doc |-> [Stage |-> StageTable, Group |-> g], st |-> NoStateFile] :
             g \in {h \in GroupTables : h = EmptyMap}}

FirstCentral ==
    Line(KeyAX, <<"1">>) \o Line(KeyUX, <<"2">>) \o Line(KeyB, <<"1">>)


NoProbe == [fn |-> "none"]

NotDone == [done |-> FALSE]

\* No process works on the stage state file.
NoProcs == <<>>

\* Watch was not called.
NoWatch == [pc |-> "none"]

\* The characters of a group id.
IdText(id) ==
    CASE id = "api" -> <<"a", "p", "i">>
      [] id = "ui" -> <<"u", "i">>
      [] id = "web" -> <<"w", "e", "b">>
      [] id = "job" -> <<"j", "o", "b">>
      [] OTHER -> <<>>

\* The line Run prints before the loop.
stagedLine(stage, path) == [kind |-> "staged", stage |-> stage, path |-> path]

\* The line Run collects for a group after writeEnv: the id of the group,
\* the file written, and the text of the line up to the target, which
\* decides the order of two lines with the ids of the model.  The colours
\* are left out (they are the same in every line).
distributedLine(id, target) ==
    [kind |-> "distributed", id |-> id, target |-> target,
     text |-> <<"d", "i", "s", "t", "r", "i", "b", "u", "t", "e", "d", ":",
                " ", "g", "r", "o", "u", "p", ".">> \o IdText(id)
              \o <<" ", "-", ">", " ">>]

\* A variant of sortLines that leaves the lines in the order of the loop.
sortLinesNot(msgs) == msgs

\* slices.Sort(msgs): the lines in ascending order of their text.
sortLines(msgs) ==
    LET texts == Sort({msgs[i].text : i \in DOMAIN msgs})
    IN [i \in DOMAIN texts |->
           CHOOSE m \in Range(msgs) : m.text = texts[i]]

\* The record of the latest operation: pc is the position of Run in its body.
Idle ==
    [op |-> "none", pc |-> "idle", err |-> "", at |-> "", visited |-> <<>>,
     todo |-> {}, stage |-> "", path |-> NoPath, ret |-> NoPath,
     env |-> EmptyMap, outs |-> EmptyMap, log |-> <<>>,
     before |-> EmptyMap, cur |-> "", dir |-> NoPath, o |-> EmptyMap,
     again |-> FALSE, msgs |-> <<>>, printed |-> <<>>]

Init ==
    /\ files = CentralPath :> FirstCentral
    /\ \E s \in Starts :
        /\ cfg = Load([dirs |-> Dirs, files |-> files], ConfigPath, s.doc)
        /\ store = s.st
    /\ runs = 0
    /\ run = Idle
    /\ written = {}
    /\ probe = NoProbe
    /\ probeOut = NotDone
    /\ procs = NoProcs
    /\ watch = NoWatch

NoFault == [kind |-> "none", n |-> 0]

\* The failures of os.Create and of the flush in writeEnv.
WriteFaults ==
    {NoFault, [kind |-> "create", n |-> 0]}
    \cup {[kind |-> "flush", n |-> n] : n \in 0..MaxFlushed}

\* The failures of os.WriteFile in createEnvrc.
EnvrcFaults == {NoFault, [kind |-> "envrc", n |-> 0]}

Entries(id, paths) == [i \in DOMAIN paths |-> [id |-> id, path |-> paths[i]]]

\* Run returns the error e while at the group id.
Fail(e, id) == [run EXCEPT !.pc = "done", !.err = e, !.at = id]

\* This call of Run follows a successful Run that read the same content from
\* the same central env file.
Repeats(central) ==
    /\ run.op = "Run"
    /\ run.pc = "done"
    /\ run.err = ""
    /\ run.path.segs = central
    /\ run.before[central] = files[central]

\* Config.Run up to the loop: the stage, its path, the central env.
RunStart ==
    /\ probe.fn = "none"
    /\ run.pc \in {"idle", "done"}
    /\ runs < MaxRuns
    /\ runs' = runs + 1
    /\ \E pre \in {runPrelude(cfg, store, [dirs |-> Dirs, files |-> files])} :
        run' = IF pre.err # ""
               THEN [Idle EXCEPT !.op = "Run", !.pc = "done", !.err = pre.err,
                                 !.stage = pre.stage, !.before = files]
               ELSE [Idle EXCEPT !.op = "Run", !.pc = "loop",
                                 !.todo = DOMAIN cfg.Group, !.stage = pre.stage,
                                 !.path = pre.path, !.env = pre.env,
                                 !.before = files,
                                 !.again = Repeats(pre.path.segs),
                                 !.printed = <<stagedLine(pre.stage, pre.path)>>]
    /\ UNCHANGED <<cfg, store, files, written, probe, probeOut, procs, watch>>

\* The loop of Run takes a next group, in the order of the range over the map:
\* validateGroupPair, makeEnv, the check of empty values.
RunGroup ==
    /\ run.pc = "loop"
    /\ \E id \in run.todo :
        \E group \in {cfg.Group[id]},
           v \in {validateGroupPair(cfg, [dirs |-> Dirs, files |-> files],
                                    id, cfg.Group[id])} :
           IF v.err # "" THEN run' = Fail(v.err, id)
           ELSE \E o \in makeEnvResults(group, run.env) :
                   IF group.IsCheck /\ \E k \in DOMAIN o : IsEmptyValue(o[k])
                   THEN run' = [Fail("ErrEmptyValue", id) EXCEPT
                                   !.outs = Put(run.outs, id, o)]
                   ELSE run' = [run EXCEPT
                                   !.pc = IF Len(group.DirenvSupport) # 0
                                          THEN "envrc" ELSE "write",
                                   !.cur = id, !.dir = v.path, !.o = o,
                                   !.outs = Put(run.outs, id, o)]
    /\ UNCHANGED <<cfg, store, files, written, runs, probe, probeOut, procs, watch>>

\* The loop of Run: createEnvrc for the current group.
RunEnvrc ==
    /\ run.pc = "envrc"
    /\ \E fault \in EnvrcFaults :
        \E rc \in {createEnvrc(cfg, [dirs |-> Dirs, files |-> files],
                                cfg.Group[run.cur], run.dir, fault)} :
           /\ files' = rc.files
           /\ written' = written \cup Range(rc.wrote)
           /\ run' = IF rc.err # "" THEN Fail("ErrCreateEnvrc", run.cur)
                     ELSE [run EXCEPT !.pc = "write",
                                      !.log = @ \o Entries(run.cur, rc.wrote)]
    /\ UNCHANGED <<cfg, store, runs, probe, probeOut, procs, watch>>

\* The loop of Run: writeEnv for the current group, then the next iteration.
RunWrite ==
    /\ run.pc = "write"
    /\ \E fault \in WriteFaults :
        \E w \in {writeEnv([dirs |-> Dirs, files |-> files],
                            Join(run.dir, Path(FALSE, <<".env">>)), run.o, fault)} :
           /\ files' = w.files
           /\ written' = written \cup Range(w.wrote)
           /\ run' = IF w.err # ""
                     THEN [Fail("ErrWriteEnv", run.cur) EXCEPT
                              !.log = @ \o Entries(run.cur, w.wrote)]
                     ELSE [run EXCEPT !.pc = "loop",
                                      !.todo = @ \ {run.cur},
                                      !.visited = Append(@, run.cur),
                                      !.log = @ \o Entries(run.cur, w.wrote),
                                      !.msgs = Append(@, distributedLine(
                                                   run.cur,
                                                   Join(run.dir,
                                                        Path(FALSE, <<".env">>))))]
    /\ UNCHANGED <<cfg, store, runs, probe, probeOut, procs, watch>>

\* Run after the loop: it returns the path of the central env file.
RunReturn ==
    /\ run.pc = "loop"
    /\ run.todo = {}
    /\ run' = [run EXCEPT !.pc = "done", !.ret = run.path,
                          !.printed = @ \o sortLines(run.msgs)]
    /\ UNCHANGED <<cfg, store, files, written, runs, probe, probeOut, procs, watch>>

\* The user edits the central env file between two calls of Run.
EditCentral ==
    /\ probe.fn = "none"
    /\ run.pc \in {"idle", "done"}
    /\ runs < MaxRuns
    /\ \E content \in Centrals :
        /\ content # files[CentralPath]
        /\ files' = Put(files, CentralPath, content)
    /\ run' = [Idle EXCEPT !.op = "Edit"]
    /\ UNCHANGED <<cfg, store, written, runs, probe, probeOut, procs, watch>>

Next ==
    \/ RunStart
    \/ RunGroup
    \/ RunEnvrc
    \/ RunWrite
    \/ RunReturn
    \/ EditCentral

Spec == Init /\ [][Next]_vars

(***************************************************************************)
(* Direct calls of readEnv: one call on a file with the content probe.data. *)
(***************************************************************************)
ProbeFile == <<"probe", ".env">>

ReadAlphabet == {"A", "=", " ", "#", "\n"}

\* A configuration for the behaviours that only call package functions.
IdleCfg ==
    Load([dirs |-> Dirs, files |-> EmptyMap], ConfigPath,
         [Stage |-> StageTable, Group |-> EmptyMap])

InitRead ==
    /\ cfg = IdleCfg
    /\ store = Selected
    /\ run = Idle
    /\ written = {}
    /\ runs = 0
    /\ \E data \in Strs(ReadAlphabet, MaxFileLen) :
        /\ probe = [fn |-> "readEnv", data |-> data]
        /\ files = ProbeFile :> data
    /\ probeOut = NotDone
    /\ procs = NoProcs
    /\ watch = NoWatch

CallReadEnv ==
    /\ probe.fn = "readEnv"
    /\ ~probeOut.done
    /\ probeOut' = [done |-> TRUE,
                    r |-> readEnv([dirs |-> Dirs, files |-> files], ProbeFile)]
    /\ UNCHANGED <<cfg, store, files, run, written, runs, probe, procs, watch>>

NextRead == CallReadEnv

SpecRead == InitRead /\ [][NextRead]_vars

(***************************************************************************)
(* What the specification says readEnv returns for a file content.         *)
(***************************************************************************)
SetMin(S) == CHOOSE x \in S : \A y \in S : x <= y

SetMax(S) == CHOOSE x \in S : \A y \in S : y <= x

Blank == {" ", "\t", "\r", "\n"}

\* s without the whitespace at its two ends
Trimmed(s) ==
    LET I == {i \in 1..Len(s) : s[i] \notin Blank}
    IN IF I = {} THEN <<>> ELSE SubSeq(s, SetMin(I), SetMax(I))

\* The positions of data where a line starts.
LineStarts(data) ==
    {a \in 1..Len(data) : a = 1 \/ data[a - 1] = "\n"}

\* The line of data that starts at position a, without its newline.
LineAt(data, a) ==
    LET E == {i \in a..Len(data) : data[i] = "\n"}
    IN SubSeq(data, a, IF E = {} THEN Len(data) ELSE SetMin(E) - 1)

EqualsAt(t) == {i \in 1..Len(t) : t[i] = "="}

\* A line that is not blank, not a comment, and has an equals sign.
Qualifies(l) ==
    /\ Trimmed(l) # <<>>
    /\ Trimmed(l)[1] # "#"
    /\ EqualsAt(Trimmed(l)) # {}

KeyOf(l) == Trimmed(SubSeq(Trimmed(l), 1, SetMin(EqualsAt(Trimmed(l))) - 1))

ValOf(l) ==
    Trimmed(SubSeq(Trimmed(l), SetMin(EqualsAt(Trimmed(l))) + 1,
                   Len(Trimmed(l))))

\* The mapping the qualifying lines of data define, the last line of a key
\* giving its value.
ExpectedEnv(data) ==
    LET Q == {a \in LineStarts(data) : Qualifies(LineAt(data, a))}
        K == {KeyOf(LineAt(data, a)) : a \in Q}
    IN [k \in K |->
           ValOf(LineAt(data,
                        SetMax({a \in Q : KeyOf(LineAt(data, a)) = k})))]

\* C10: readEnv skips blank lines and lines whose first non-blank character
\* is "#", ignores a line without "=", splits every other line at its first
\* "=" and trims key and value, lets the last line of a key win, and returns
\* the mapping without error, an empty one when no line qualifies.
C10_ReadEnvLines ==
    (probe.fn = "readEnv" /\ probeOut.done) =>
        /\ probeOut.r.err = ""
        /\ probeOut.r.env = ExpectedEnv(probe.data)
        /\ probeOut.r.n =
               Cardinality({a \in LineStarts(probe.data) :
                               Qualifies(LineAt(probe.data, a))})

\* A key on two lines, the second with the empty value, after a comment.
C10_Witness ==
    /\ probe.fn = "readEnv"
    /\ probeOut.done
    /\ probe.data = <<"A", "=", "A", "\n", "A", "=">>
    /\ probeOut.r.env = (<<"A">> :> <<>>)

(***************************************************************************)
(* Direct calls of writeEnv, and of readEnv on the file it wrote.          *)
(***************************************************************************)
ValAlphabet == {"1", " ", "=", "#"}

WriteKeys ==
    {<<"A">>, <<"B">>, <<"A", "B">>, <<"#", "A">>, <<"A", "=", "B">>,
     <<" ", "A">>, <<"A", "\n", "B">>, <<>>}

\* The mappings of at most two keys given to writeEnv.
WriteMaps ==
    {EmptyMap}
    \cup {k :> v : k \in WriteKeys, v \in Strs(ValAlphabet, MaxValLen)}
    \cup {(k[1] :> v[1]) @@ (k[2] :> v[2]) :
              k \in {x \in WriteKeys \X WriteKeys : StrLess(x[1], x[2])},
              v \in Strs(ValAlphabet, MaxValLen) \X Strs(ValAlphabet, MaxValLen)}

OldContent == <<"B", "=", "1", "\n", "A", "=", "1", "\n", "#">>

InitWrite ==
    /\ cfg = IdleCfg
    /\ store = Selected
    /\ run = Idle
    /\ written = {}
    /\ runs = 0
    /\ files \in {EmptyMap, ProbeFile :> OldContent}
    /\ \E env \in WriteMaps : probe = [fn |-> "writeEnv", env |-> env]
    /\ probeOut = NotDone
    /\ procs = NoProcs
    /\ watch = NoWatch

CallWriteEnv ==
    /\ probe.fn = "writeEnv"
    /\ ~probeOut.done
    /\ \E fault \in WriteFaults :
        \E w \in {writeEnv([dirs |-> Dirs, files |-> files],
                           Path(TRUE, ProbeFile), probe.env, fault)} :
           /\ files' = w.files
           /\ probeOut' = [done |-> TRUE, r |-> w.err, read |-> FALSE]
    /\ UNCHANGED <<cfg, store, run, written, runs, probe, procs, watch>>

\* readEnv on the file that writeEnv was called on.
CallReadBack ==
    /\ probe.fn = "writeEnv"
    /\ probeOut.done
    /\ ~probeOut.read
    /\ probeOut' = [done |-> TRUE, r |-> probeOut.r, read |-> TRUE,
                    back |-> readEnv([dirs |-> Dirs, files |-> files], ProbeFile)]
    /\ UNCHANGED <<cfg, store, files, run, written, runs, probe, procs, watch>>

NextWrite == CallWriteEnv \/ CallReadBack

SpecWrite == InitWrite /\ [][NextWrite]_vars

\* a comes before b in the lexical order of their bytes
Lexical(a, b) ==
    /\ a # b
    /\ \/ /\ Len(a) < Len(b)
          /\ SubSeq(b, 1, Len(a)) = a
       \/ \E i \in 1..Len(a) :
             /\ i <= Len(b)
             /\ SubSeq(a, 1, i - 1) = SubSeq(b, 1, i - 1)
             /\ Ord(a[i]) < Ord(b[i])

\* The lines key=value of the keys S of env, in ascending lexical order.
RECURSIVE AscendingLines(_, _)
AscendingLines(env, S) ==
    IF S = {} THEN <<>>
    ELSE LET k == CHOOSE x \in S : \A y \in S \ {x} : Lexical(x, y)
         IN k \o <<"=">> \o env[k] \o <<"\n">> \o AscendingLines(env, S \ {k})

\* C8: after writeEnv succeeds, the target file holds exactly one line
\* key=value per entry of the mapping, in ascending lexical order of the keys,
\* nothing of its former content, and zero bytes when the mapping is empty.
C8_WriteEnvFormat ==
    (probe.fn = "writeEnv" /\ probeOut.done /\ probeOut.r = "") =>
        /\ ProbeFile \in DOMAIN files
        /\ files[ProbeFile] = AscendingLines(probe.env, DOMAIN probe.env)
        /\ (probe.env = EmptyMap => files[ProbeFile] = <<>>)

\* Two keys, one a prefix of the other, written over a file with content.
C8_Witness ==
    /\ probe.fn = "writeEnv"
    /\ probeOut.done
    /\ probeOut.r = ""
    /\ probe.env = (<<"A", "B">> :> <<"1">>) @@ (<<"A">> :> <<"=">>)
    /\ files[ProbeFile] = <<"A", "=", "=", "\n", "A", "B", "=", "1", "\n">>

NoNewline(s) == \A i \in 1..Len(s) : s[i] # "\n"

\* A key the reader gives back as it was written.
PlainKey(k) ==
    /\ Trimmed(k) = k
    /\ NoNewline(k)
    /\ \A i \in 1..Len(k) : k[i] # "="
    /\ (k = <<>> \/ k[1] # "#")

\* C9 as stated: readEnv on the file writeEnv produced for a non-empty
\* mapping without a newline in any value returns the pairs of the mapping.
C9_RoundTripAsStated ==
    (/\ probe.fn = "writeEnv"
     /\ probeOut.done
     /\ probeOut.read
     /\ probeOut.r = ""
     /\ probe.env # EmptyMap
     /\ \A k \in DOMAIN probe.env : NoNewline(probe.env[k]))
    => (probeOut.back.err = "" /\ probeOut.back.env = probe.env)

\* C9: readEnv on the file writeEnv produced for a non-empty mapping returns
\* the pairs of the mapping when no value contains a newline, no key and no
\* value begins or ends with whitespace, and no key contains "=" or a newline
\* or begins with "#".
C9_RoundTrip ==
    (/\ probe.fn = "writeEnv"
     /\ probeOut.done
     /\ probeOut.read
     /\ probeOut.r = ""
     /\ probe.env # EmptyMap
     /\ \A k \in DOMAIN probe.env :
           /\ NoNewline(probe.env[k])
           /\ Trimmed(probe.env[k]) = probe.env[k]
           /\ PlainKey(k))
    => (probeOut.back.err = "" /\ probeOut.back.env = probe.env)

\* A value with "=" and the empty key come back as they were written.
C9_Witness ==
    /\ probe.fn = "writeEnv"
    /\ probeOut.done
    /\ probeOut.read
    /\ probeOut.r = ""
    /\ probe.env = (<<"A">> :> <<"=">>) @@ (<<>> :> <<"#">>)
    /\ probeOut.back.env = probe.env

(***************************************************************************)
(* Direct calls of makeEnv.                                                *)
(***************************************************************************)
KeyAlphabet == {"A", "L", "_"}

PartKeys == Strs(KeyAlphabet, MaxKeyLen)

\* The source mappings of at most two keys given to makeEnv.
PartBases ==
    {EmptyMap}
    \cup {k :> <<"1">> : k \in PartKeys}
    \cup {(k[1] :> <<"1">>) @@ (k[2] :> <<"2">>) :
              k \in {x \in PartKeys \X PartKeys : StrLess(x[1], x[2])}}

PartGroups ==
    {[Prefix |-> p, Dir |-> NoPath, Replaceable |-> r, Plain |-> pl,
      DirenvSupport |-> <<>>, IsCheck |-> FALSE] :
        p \in {<<"A">>, <<>>},
        r \in {<<>>, <<<<"L">>>>, <<<<"L">>, <<"A">>>>},
        pl \in {<<>>, <<<<"L", "_", "A">>, <<"_">>>>}}

InitPartition ==
    /\ cfg = IdleCfg
    /\ store = Selected
    /\ run = Idle
    /\ written = {}
    /\ runs = 0
    /\ files = EmptyMap
    /\ \E group \in PartGroups, base \in PartBases :
        probe = [fn |-> "makeEnv", group |-> group, base |-> base]
    /\ probeOut = NotDone
    /\ procs = NoProcs
    /\ watch = NoWatch

CallMakeEnv ==
    /\ probe.fn = "makeEnv"
    /\ ~probeOut.done
    /\ \E o \in makeEnvResults(probe.group, probe.base) :
        probeOut' = [done |-> TRUE, r |-> o]
    /\ UNCHANGED <<cfg, store, files, run, written, runs, probe, procs, watch>>

NextPartition == CallMakeEnv

SpecPartition == InitPartition /\ [][NextPartition]_vars

StartsWith(k, p) == Len(k) >= Len(p) /\ SubSeq(k, 1, Len(p)) = p

\* The keys partition(G, M) has by the three rules.
ExpectedKeys(G, M) ==
    {k \in DOMAIN M : StartsWith(k, G.Prefix \o <<"_">>)}
    \cup {G.Prefix \o SubSeq(ka[1], Len(ka[2]) + 1, Len(ka[1])) :
              ka \in {x \in (DOMAIN M) \X Range(G.Replaceable) :
                         StartsWith(x[1], x[2] \o <<"_">>)}}
    \cup {k \in Range(G.Plain) : k \in DOMAIN M}

\* C3: the keys of makeEnv(G, M) are the source keys that start with
\* G.Prefix + "_", the keys G.Prefix + "_" + rest of the source keys
\* alt + "_" + rest with alt in G.Replaceable, and the keys of G.Plain that
\* are in M; no other key.
C3_PartitionKeys ==
    (probe.fn = "makeEnv" /\ probeOut.done) =>
        DOMAIN probeOut.r = ExpectedKeys(probe.group, probe.base)

\* The source key L_L of a group with prefix A that replaces L.
C3_Witness ==
    /\ probe.fn = "makeEnv"
    /\ probeOut.done
    /\ probe.group.Prefix = <<"A">>
    /\ probe.group.Replaceable = <<<<"L">>>>
    /\ probe.group.Plain = <<>>
    /\ probe.base = (<<"L", "_", "L">> :> <<"1">>)
    /\ probeOut.r = (<<"A", "_", "L">> :> <<"1">>)

(***************************************************************************)
(* Direct calls of resolvePath on configurations loaded from directories   *)
(* of every depth, with the version-control marker at every level.         *)
(***************************************************************************)
DirNames == {"p", "outside", "..data"}

Outside == Path(FALSE, <<"..", "outside">>)

Candidates ==
    {Outside, Path(FALSE, <<"outside">>), Path(TRUE, <<"outside">>),
     Path(FALSE, <<"..", "..", "outside">>)}

Prefixes(d) == {SubSeq(d, 1, n) : n \in 0..Len(d)}

\* The directories of a file system with the configuration directory d, the
\* marker directory in the directories of marked, and the directories more.
TreeOf(d, marked, more) ==
    Prefixes(d)
    \cup {m \o gitDir.segs : m \in marked}
    \cup UNION {Prefixes(t) : t \in more}

InitResolve ==
    /\ cfg = IdleCfg
    /\ store = Selected
    /\ run = Idle
    /\ written = {}
    /\ runs = 0
    /\ files = EmptyMap
    /\ \E d \in Strs(DirNames, MaxDepth), path \in Candidates,
          exists \in BOOLEAN :
          \E marked \in {{}} \cup {{m} : m \in Prefixes(d)} :
             \E fsys \in {[dirs |-> TreeOf(d, marked,
                              IF exists
                              THEN {Clean(Join(Path(TRUE, d), path)).segs}
                              ELSE {}),
                           files |-> EmptyMap]} :
                probe = [fn |-> "resolvePath", fsys |-> fsys, path |-> path,
                         c |-> Load(fsys, Path(TRUE, d \o <<"lem.toml">>),
                                    [Stage |-> StageTable, Group |-> EmptyMap])]
    /\ probeOut = NotDone
    /\ procs = NoProcs
    /\ watch = NoWatch

CallResolvePath ==
    /\ probe.fn = "resolvePath"
    /\ ~probeOut.done
    /\ probeOut' = [done |-> TRUE,
                    r |-> resolvePath(probe.c, probe.fsys, probe.path)]
    /\ UNCHANGED <<cfg, store, files, run, written, runs, probe, procs, watch>>

NextResolve == CallResolvePath

SpecResolve == InitResolve /\ [][NextResolve]_vars

\* The directory segs is root or a descendant of it.
Under(root, segs) == StartsWith(segs, root)

\* C2 as stated: resolving ../outside fails with the escapes-root error for
\* any project root and any configuration directory.
C2_OutsideAsStated ==
    (probe.fn = "resolvePath" /\ probeOut.done /\ probe.path = Outside) =>
        probeOut.r.err = "ErrOutsideRoot"

\* C2: resolving ../outside fails with the escapes-root error whenever the
\* configuration directory is the project root, other than the file system
\* root and a directory named outside, whether or not the target exists.
C2_OutsideOfRoot ==
    (/\ probe.fn = "resolvePath"
     /\ probeOut.done
     /\ probe.path = Outside
     /\ probe.c.dir = probe.c.root
     /\ probe.c.root.segs # <<>>
     /\ probe.c.root.segs[Len(probe.c.root.segs)] # "outside")
    => probeOut.r.err = "ErrOutsideRoot"

\* The target exists next to a project root that holds the configuration.
C2_Witness ==
    /\ probe.fn = "resolvePath"
    /\ probeOut.done
    /\ probe.path = Outside
    /\ probe.c.dir.segs = <<"p">>
    /\ probe.c.root.segs = <<"p">>
    /\ <<"p", ".git">> \in probe.fsys.dirs
    /\ <<"outside">> \in probe.fsys.dirs
    /\ probeOut.r.err = "ErrOutsideRoot"

(***************************************************************************)
(* Properties of Run, checked on the behaviours of Spec.                   *)
(***************************************************************************)
Last(q) == q[Len(q)]

Front(q) == SubSeq(q, 1, Len(q) - 1)

\* A call of Run has returned, with or without an error.
Returned == run.op = "Run" /\ run.pc = "done"

\* The serialization of a mapping: its lines key=value sorted by key.
Serialized(env) == AscendingLines(env, DOMAIN env)

\* The path of the file .env in the resolved directory of the group id, and
\* no path when the directory of the group does not resolve.
EnvPathOf(id) ==
    LET r == resolvePath(cfg, [dirs |-> Dirs, files |-> files],
                         cfg.Group[id].Dir)
    IN IF r.err = "" THEN {r.path.segs \o <<".env">>} ELSE {}

\* The content of the file at path in the files fl, <<"absent">> without one.
ContentIn(fl, path) == IF path \in DOMAIN fl THEN <<"file", fl[path]>> ELSE <<"absent">>

\* C1: every file a Run has created or overwritten is named .env or .envrc
\* and lies directly in the project root or in a directory below it.
C1_WritesUnderRoot ==
    \A p \in written :
        /\ p # <<>>
        /\ Last(p) \in {".env", ".envrc"}
        /\ Under(cfg.root.segs, Front(p))

\* A group whose dir has a parent segment and a group whose dir is absolute
\* have both had their files written.
C1_Witness ==
    /\ Returned
    /\ run.err = ""
    /\ DOMAIN cfg.Group = {"api", "ui"}
    /\ cfg.Group["api"].Dir = Rel1(<<"..", "api">>)
    /\ cfg.Group["ui"].Dir = Path(TRUE, <<"repo", "ui">>)
    /\ {<<"repo", "api", ".env">>, <<"repo", "api", ".envrc">>,
        <<"repo", "ui", ".env">>} \subseteq written

\* C4 as stated: after a successful Run the file .env in the resolved
\* directory of every group holds the serialization of the partition of the
\* central mapping for that group.
C4_EveryGroupFile ==
    (Returned /\ run.err = "") =>
        \A id \in DOMAIN cfg.Group :
            /\ EnvPathOf(id) # {}
            /\ \A p \in EnvPathOf(id) :
                  /\ p \in DOMAIN files
                  /\ files[p] \in {Serialized(o) :
                                      o \in makeEnvResults(cfg.Group[id], run.env)}

\* The values the check of a group rejects.
EmptyForms == {<<>>, <<"'", "'">>, <<"\"", "\"">>, <<Backtick, Backtick>>}

HasEmptyForm(o) == \E k \in DOMAIN o : o[k] \in EmptyForms

\* C5: when Run has partitioned the central mapping for a group and the
\* output has a value that is empty or one of the three placeholders, then
\* with check=true the Run has failed at that group with the empty-value
\* error and has made no write for it, and with check=false the Run does not
\* fail with that error and, the group completed, has written its .env.
C5_EmptyValueCheck ==
    run.op = "Run" =>
        \A id \in DOMAIN run.outs :
            HasEmptyForm(run.outs[id]) =>
                IF cfg.Group[id].IsCheck
                THEN /\ Returned
                     /\ run.err = "ErrEmptyValue"
                     /\ run.at = id
                     /\ \A i \in DOMAIN run.log : run.log[i].id # id
                ELSE /\ ~(run.err = "ErrEmptyValue" /\ run.at = id)
                     /\ id \in Range(run.visited) =>
                           \E i \in DOMAIN run.log :
                               /\ run.log[i].id = id
                               /\ Last(run.log[i].path) = ".env"

\* A checked group stopped by a value of two backticks, after an unchecked
\* group was given a value of two double quotes.
C5_Witness ==
    /\ Returned
    /\ run.err = "ErrEmptyValue"
    /\ run.at = "ui"
    /\ run.outs["ui"] = (KeyUX :> <<Backtick, Backtick>>)
    /\ run.visited = <<"api">>
    /\ ~cfg.Group["api"].IsCheck
    /\ run.outs["api"] = (KeyAX :> <<"\"", "\"">>)
    /\ ContentIn(files, <<"repo", "api", ".env">>)
           = <<"file", Line(KeyAX, <<"\"", "\"">>)>>

\* C6 as stated: when Run fails at a group, the .env files of the groups
\* processed before it hold their new content, and the .env files of the
\* failing group and of the groups not yet processed are as before the Run.
C6_AsStated ==
    (Returned /\ run.err # "" /\ run.at # "") =>
        /\ \A id \in Range(run.visited) : \A p \in EnvPathOf(id) :
              ContentIn(files, p) = <<"file", Serialized(run.outs[id])>>
        /\ \A id \in DOMAIN cfg.Group \ Range(run.visited) :
              \A p \in EnvPathOf(id) :
                  ContentIn(files, p) = ContentIn(run.before, p)

\* The entries of the log of the Run for the file at path.
WritesOf(path) == {i \in DOMAIN run.log : run.log[i].path = path}

IsPrefixOf(a, b) == StartsWith(b, a)

\* C6: when Run fails at a group there is no rollback: a file no group of
\* the Run wrote is as before the Run; a .env file holds what the last group
\* to write it put there, the whole serialization for a group processed
\* before the failing one, and for the failing group, whose write failed
\* after the file was created, a truncated serialization.
C6_NoRollback ==
    (Returned /\ run.err # "" /\ run.at # "") =>
        \A p \in DOMAIN files \cup DOMAIN run.before :
            IF WritesOf(p) = {}
            THEN ContentIn(files, p) = ContentIn(run.before, p)
            ELSE Last(p) = ".env" =>
                   LET e == run.log[SetMax(WritesOf(p))]
                   IN IF e.id \in Range(run.visited)
                      THEN ContentIn(files, p)
                               = <<"file", Serialized(run.outs[e.id])>>
                      ELSE /\ e.id = run.at
                           /\ run.err = "ErrWriteEnv"
                           /\ p \in DOMAIN files
                           /\ IsPrefixOf(files[p], Serialized(run.outs[e.id]))
                           /\ files[p] # Serialized(run.outs[e.id])

\* The first group was written in full, the write of the second failed
\* after its file, which had content, was truncated.
C6_Witness ==
    /\ Returned
    /\ run.err = "ErrWriteEnv"
    /\ run.visited = <<"api">>
    /\ run.at = "ui"
    /\ run.outs["api"] # EmptyMap
    /\ ContentIn(files, <<"repo", "api", ".env">>)
           = <<"file", Serialized(run.outs["api"])>>
    /\ ContentIn(run.before, <<"repo", "ui", ".env">>)
           = <<"file", Line(KeyB, <<"1">>) \o Line(KeyUX, <<"2">>)>>
    /\ ContentIn(files, <<"repo", "ui", ".env">>) = <<"file", <<>>>>

\* C7 as stated: a successful Run that follows a successful Run, with the
\* same configuration, stage and central env content, changes no file.
C7_SecondRunChangesNothing ==
    (Returned /\ run.err = "" /\ run.again) => files = run.before

(***************************************************************************)
(* Config.Validate, called on configurations of every shape.               *)
(***************************************************************************)
MaxGroups == 2      \* most groups in a configuration given to Validate

\* The loop of Validate over cfg.Stage, in the order stages of the range.
RECURSIVE validateStages(_, _, _)
validateStages(c, fsys, stages) ==
    IF stages = <<>> THEN ""
    ELSE IF validateStagePair(c, fsys, Head(stages)).err # ""
    THEN validateStagePair(c, fsys, Head(stages)).err
    ELSE validateStages(c, fsys, Tail(stages))

\* The loop of Validate over cfg.Group, in the order groups of the range.
RECURSIVE validateGroups(_, _, _)
validateGroups(c, fsys, groups) ==
    IF groups = <<>> THEN ""
    ELSE IF validateGroupPair(c, fsys, Head(groups), c.Group[Head(groups)]).err # ""
    THEN validateGroupPair(c, fsys, Head(groups), c.Group[Head(groups)]).err
    ELSE validateGroups(c, fsys, Tail(groups))

\* The two loops of Validate.
validatePairs(c, fsys, stages, groups) ==
    IF validateStages(c, fsys, stages) # ""
    THEN validateStages(c, fsys, stages)
    ELSE validateGroups(c, fsys, groups)

\* A variant of Validate that looks at the group table first.
ValidateGroupTableFirst(c, fsys, stages, groups) ==
    IF validateGroupTable(c) # "" THEN validateGroupTable(c)
    ELSE IF validateStageTable(c) # "" THEN validateStageTable(c)
    ELSE validatePairs(c, fsys, stages, groups)

\* Config.Validate: the error it returns, "" for none.
Validate(c, fsys, stages, groups) ==
    IF validateStageTable(c) # "" THEN validateStageTable(c)
    ELSE IF validateGroupTable(c) # "" THEN validateGroupTable(c)
    ELSE validatePairs(c, fsys, stages, groups)

\* The directories and files of the repository that Validate looks at.
ValidateDirs == Dirs \cup {<<"repo", "..data">>}

ValidateFiles ==
    (CentralPath :> FirstCentral)
    @@ (<<"repo", "..data", ".env">> :> FirstCentral)
    @@ (<<"out", ".env">> :> FirstCentral)

ValidateFsys == [dirs |-> ValidateDirs, files |-> ValidateFiles]

GoodStage == Rel1(<<".env">>)

\* Stage paths: a file, the configuration directory (as "." and as the empty
\* string), a missing file, a file outside the root, a file below ..data.
StagePaths ==
    {GoodStage, Rel1(<<".">>), NoPath, Rel1(<<"nope">>),
     Path(TRUE, <<"out", ".env">>), Rel1(<<"..", "..data", ".env">>)}

StageTables ==
    {EmptyMap}
    \cup {"default" :> p : p \in StagePaths}
    \cup {("default" :> GoodStage) @@ ("prod" :> p) :
             p \in {GoodStage, Rel1(<<"nope">>), Rel1(<<".">>)}}

GoodGroup ==
    [Prefix |-> <<"A">>, Dir |-> Rel1(<<"..", "api">>), Replaceable |-> <<>>,
     Plain |-> <<>>, DirenvSupport |-> <<>>, IsCheck |-> FALSE]

\* Groups: a valid one, and groups that differ from it in one or two fields.
ValidateGroups ==
    {GoodGroup}
    \cup {[GoodGroup EXCEPT !.Prefix = <<>>],
          [GoodGroup EXCEPT !.Prefix = <<>>, !.DirenvSupport = <<"zz">>],
          [GoodGroup EXCEPT !.Replaceable = <<<<>>>>],
          [GoodGroup EXCEPT !.Plain = <<<<"B">>, <<>>>>]}
    \cup {[GoodGroup EXCEPT !.Dir = d] :
             d \in {NoPath, Rel1(<<"..", "nope">>), Rel1(<<".env">>),
                    Path(TRUE, <<"out">>), Rel1(<<"..", "..data">>),
                    Rel1(<<"..">>)}}
    \cup {[GoodGroup EXCEPT !.DirenvSupport = e] :
             e \in {<<"">>, <<"zz">>, <<"api">>, <<"ui">>, <<"api", "zz">>}}

GroupNames == <<"api", "ui", "web", "job">>

\* The group tables with at most MaxGroups groups, under the first names.
ValidateTables ==
    UNION {[{GroupNames[i] : i \in 1..n} -> ValidateGroups] : n \in 0..MaxGroups}

InitValidate ==
    /\ files = ValidateFiles
    /\ \E s \in StageTables, g \in ValidateTables :
        cfg = Load(ValidateFsys, ConfigPath, [Stage |-> s, Group |-> g])
    /\ store = Selected
    /\ run = Idle
    /\ written = {}
    /\ runs = 0
    /\ probe = [fn |-> "Validate"]
    /\ probeOut = NotDone
    /\ procs = NoProcs
    /\ watch = NoWatch

\* One call of Validate; the two range loops visit the maps in any order.
CallValidate ==
    /\ probe.fn = "Validate"
    /\ ~probeOut.done
    /\ \E stages \in Orders(DOMAIN cfg.Stage), groups \in Orders(DOMAIN cfg.Group) :
        probeOut' = [done |-> TRUE,
                     err |-> Validate(cfg, [dirs |-> ValidateDirs, files |-> files],
                                      stages, groups)]
    /\ UNCHANGED <<cfg, store, files, run, written, runs, probe, procs, watch>>

NextValidate == CallValidate

SpecValidate == InitValidate /\ [][NextValidate]_vars

\* The cleaned absolute form of the path p of the configuration c.
AbsOf(c, p) == IF p.abs THEN Clean(p) ELSE Clean(Join(c.dir, p))

InsideRoot(c, p) == Under(c.root.segs, AbsOf(c, p).segs)

IsFileInRoot(c, fsys, p) ==
    InsideRoot(c, p) /\ AbsOf(c, p).segs \in DOMAIN fsys.files

IsDirInRoot(c, fsys, p) ==
    InsideRoot(c, p) /\ AbsOf(c, p).segs \in fsys.dirs

ConformingGroup(c, fsys, g) ==
    /\ g.Prefix # <<>>
    /\ g.Dir # NoPath
    /\ IsDirInRoot(c, fsys, g.Dir)
    /\ <<>> \notin Range(g.Replaceable)
    /\ <<>> \notin Range(g.Plain)
    /\ "" \notin Range(g.DirenvSupport)
    /\ Range(g.DirenvSupport) \subseteq DOMAIN c.Group

\* The conditions under which Validate is to succeed.
Conforming(c, fsys) ==
    /\ DOMAIN c.Stage # {}
    /\ DOMAIN c.Group # {}
    /\ \A s \in DOMAIN c.Stage : IsFileInRoot(c, fsys, c.Stage[s])
    /\ \A id \in DOMAIN c.Group : ConformingGroup(c, fsys, c.Group[id])

Validated == probe.fn = "Validate" /\ probeOut.done

\* C11: Validate succeeds if and only if the stage table and the group table
\* are non-empty, every stage is an existing non-directory inside the project
\* root, every group has a prefix and a dir that is an existing directory
\* inside the project root, no list of a group contains the empty string and
\* every direnv entry is a declared group.
C11_ValidateIff ==
    Validated =>
        (probeOut.err = "" <=>
            Conforming(cfg, [dirs |-> ValidateDirs, files |-> files]))

\* No path of the configuration has a name beginning with two dots below the
\* project root.
NoDotDotName(c) ==
    /\ \A s \in DOMAIN c.Stage : "..data" \notin Range(AbsOf(c, c.Stage[s]).segs)
    /\ \A id \in DOMAIN c.Group :
          "..data" \notin Range(AbsOf(c, c.Group[id].Dir).segs)

\* The equivalence of C11 on the configurations without such names.
ValidateIffWithoutDotDotNames ==
    (Validated /\ NoDotDotName(cfg)) =>
        (probeOut.err = "" <=>
            Conforming(cfg, [dirs |-> ValidateDirs, files |-> files]))

\* C12: with an empty stage table Validate returns the stage-table-empty
\* error, whatever the group table holds.
C12_StageTableFirst ==
    (Validated /\ DOMAIN cfg.Stage = {}) =>
        probeOut.err = "ErrStageTableEmpty"

\* Validate was called with an empty stage table and a group without prefix.
C12_Witness ==
    /\ Validated
    /\ DOMAIN cfg.Stage = {}
    /\ \E id \in DOMAIN cfg.Group : cfg.Group[id].Prefix = <<>>
    /\ probeOut.err = "ErrStageTableEmpty"

\* The ids named in a direnv list that are not declared groups.
UnknownIds(c) ==
    {s \in UNION {Range(c.Group[id].DirenvSupport) : id \in DOMAIN c.Group} :
        s \notin DOMAIN c.Group}

Declared(c, list) ==
    IF list = <<>> THEN <<>>
    ELSE SelectSeq(list, LAMBDA s : s \in DOMAIN c.Group)

\* The configuration c without the undeclared ids in its direnv lists.
WithoutUnknownIds(c) ==
    [c EXCEPT !.Group =
        [id \in DOMAIN c.Group |->
            [c.Group[id] EXCEPT !.DirenvSupport = Declared(c, @)]]]

ValidWithoutUnknownIds(c, fsys) ==
    Validate(WithoutUnknownIds(c), fsys,
             CHOOSE o \in Orders(DOMAIN c.Stage) : TRUE,
             CHOOSE o \in Orders(DOMAIN c.Group) : TRUE) = ""

\* C13 as stated: a direnv entry that is not a declared group makes Validate
\* return the unknown-group-reference error, whatever else the configuration
\* contains.
C13_AsStated ==
    (Validated /\ UnknownIds(cfg) # {}) => probeOut.err = "ErrInvalidID"

\* C13: a direnv entry that is not a declared group makes Validate fail; the
\* error is the unknown-group-reference error when the configuration passes
\* without the undeclared ids and none of them is the empty string.
C13_UnknownReference ==
    (Validated /\ UnknownIds(cfg) # {}) =>
        /\ probeOut.err # ""
        /\ (/\ "" \notin UnknownIds(cfg)
            /\ ValidWithoutUnknownIds(cfg, [dirs |-> ValidateDirs, files |-> files]))
           => probeOut.err = "ErrInvalidID"

\* Validate was called on two groups, one of them naming the undeclared zz.
C13_Witness ==
    /\ Validated
    /\ UnknownIds(cfg) = {"zz"}
    /\ Cardinality(DOMAIN cfg.Group) = 2
    /\ ValidWithoutUnknownIds(cfg, [dirs |-> ValidateDirs, files |-> files])
    /\ probeOut.err = "ErrInvalidID"

(***************************************************************************)
(* The stage state store: Switch, Current and the other operations, called *)
(* by separate processes on several configuration files.                   *)
(***************************************************************************)
MaxProcs == 2       \* processes that may be inside Switch at the same time
MaxOps == 3         \* operations started in one behaviour

\* storeStage up to the assignment of state[cfg.path]: os.ReadFile and
\* json.Unmarshal; a missing, unreadable or empty file gives the empty state.
storeRead(st) ==
    IF st.exists /\ st.size > 0
    THEN IF st.form = "json" THEN [state |-> st.m, err |-> ""]
         ELSE [state |-> EmptyMap, err |-> "ErrUnmarshal"]
    ELSE [state |-> EmptyMap, err |-> ""]

\* os.WriteFile, first half: the file is opened with O_CREATE and O_TRUNC.
storeOpen(st) == [exists |-> TRUE, form |-> "empty", m |-> EmptyMap, size |-> 0]

\* os.WriteFile, second half: the text of state is written at offset 0 of the
\* open file; bytes that another writer put beyond its end stay in the file.
storeWrite(st, state, path) ==
    IF st.size <= jsonSize(state) THEN StateFile(state)
    ELSE [exists |-> TRUE, form |-> "corrupt", m |-> EmptyMap, size |-> st.size]

\* Switch before storeStage: validateStageTable and validateStagePair.
switchCheck(c, fsys, stage) ==
    IF validateStageTable(c) # "" THEN validateStageTable(c)
    ELSE validateStagePair(c, fsys, stage).err

\* Config.Current: its error, the stage it reports, the stage it loaded.
Current(c, st, fsys) ==
    IF validateStageTable(c) # ""
    THEN [err |-> validateStageTable(c), stage |-> "", loaded |-> ""]
    ELSE IF loadStage(c, st).err # ""
    THEN [err |-> loadStage(c, st).err, stage |-> "", loaded |-> ""]
    ELSE IF validateStagePair(c, fsys, loadStage(c, st).stage).err # ""
    THEN [err |-> validateStagePair(c, fsys, loadStage(c, st).stage).err,
          stage |-> "", loaded |-> loadStage(c, st).stage]
    ELSE [err |-> "", stage |-> loadStage(c, st).stage,
          loaded |-> loadStage(c, st).stage]

\* Run and List up to the loop, from what the calls before it returned: the
\* error, the stage they work on, the stage they loaded.
staged(pre) ==
    [err |-> pre.err, stage |-> IF pre.err = "" THEN pre.stage ELSE "",
     loaded |-> pre.stage]

\* The configuration files: two that the processes work on, and a third one
\* that only has an entry in the state file.
OtherConfigPath == Path(TRUE, <<"repo", "conf", "other.toml">>)

ThirdConfigPath == Path(TRUE, <<"repo", "conf", "third.toml">>)

StorePaths == {ConfigPath, OtherConfigPath}

AllPaths == StorePaths \cup {ThirdConfigPath}

FullStages ==
    ("dev" :> GoodStage) @@ ("prod" :> GoodStage)
    @@ ("bad" :> Rel1(<<"nope">>)) @@ ("dir" :> Rel1(<<".">>))
    @@ ("out" :> Path(TRUE, <<"out", ".env">>))

\* The stage table after an edit: dev now lies below ..data, prod is gone.
MovedStages == "dev" :> Rel1(<<"..", "..data", ".env">>)

OneGroup == "api" :> GoodGroup

\* The documents a configuration file may hold when a process loads it.
StoreDocs ==
    {[Stage |-> FullStages, Group |-> OneGroup],
     [Stage |-> FullStages, Group |-> EmptyMap],
     [Stage |-> MovedStages, Group |-> OneGroup],
     [Stage |-> EmptyMap, Group |-> OneGroup]}

\* The stage names given to Switch; gone is not declared anywhere.
SwitchArgs == {"dev", "prod", "bad", "dir", "out", "gone", ""}

\* The Configs that the processes load.
StoreCfgs == {Load(ValidateFsys, path, doc) : path \in StorePaths, doc \in StoreDocs}

\* The calls of Switch, each with what it returns before storeStage.
SwitchCalls ==
    {[cfg |-> c, stage |-> stage, err |-> switchCheck(c, ValidateFsys, stage)] :
        c \in {d \in StoreCfgs : DOMAIN d.Group # {}}, stage \in SwitchArgs}

\* The state files the behaviours start from.
StoreStarts ==
    {NoStateFile,
     StateFile(Put(EmptyMap, ThirdConfigPath.segs, Selection("dev"))),
     StateFile(Put(Put(EmptyMap, ThirdConfigPath.segs, Selection("prod")),
                   ConfigPath.segs, EmptyMap))}

\* A process: its position in Switch, its Config, the stage given to Switch,
\* the state of storeStage, whether the state it read held an entry of its
\* path, the error returned.
IdleSwitch ==
    [pc |-> "idle", cfg |-> IdleCfg, stage |-> "", state |-> EmptyMap,
     had |-> FALSE, err |-> ""]

NoOut == [op |-> "none"]

InFlight(p) == p.pc \in {"read", "open", "write"}

\* No process is inside storeStage for the configuration path.
Quiet(path) ==
    \A i \in DOMAIN procs.sw :
        ~(InFlight(procs.sw[i]) /\ procs.sw[i].cfg.path = path)

\* No process is inside storeStage.
AllQuiet == \A j \in DOMAIN procs.sw : ~InFlight(procs.sw[j])

\* The entry of the configuration path in the state file, if it can be read.
Sel(st, path) ==
    IF st.exists /\ st.form = "json" /\ path.segs \in DOMAIN st.m
    THEN [has |-> TRUE, v |-> st.m[path.segs]]
    ELSE [has |-> FALSE, v |-> EmptyMap]

InitStore ==
    /\ cfg = IdleCfg
    /\ files = ValidateFiles
    /\ store \in StoreStarts
    /\ run = Idle
    /\ written = {}
    /\ runs = 0
    /\ probe = NoProbe
    /\ probeOut = NotDone
    /\ procs = [sw |-> [i \in 1..MaxProcs |-> IdleSwitch], out |-> NoOut,
                switched |-> [p \in StorePaths |-> ""], serial |-> TRUE,
                kept |-> [p \in AllPaths |-> Sel(store, p)], busy |-> 0,
                n |-> 0]
    /\ watch = NoWatch

\* The history: switched is, for each path, the stage of the latest
\* successful Switch when no Switch on the path has entered storeStage since;
\* kept is, for each path, the entry that the state file held at first or
\* that the latest successful Switch on the path stored.
\* What an operation that loads the stage is expected to load.
Expected(path) == IF Quiet(path) THEN procs.switched[path] ELSE ""

\* The record of an operation that takes one step: its Config, the entry of
\* its path in the state file at that step, what it returned.
Outcome(op, c, stage, r) ==
    [op |-> op, cfg |-> c, stage |-> stage, sel |-> Sel(store, c.path), r |-> r,
     expect |-> Expected(c.path), quiet |-> AllQuiet]

\* The operation of a process ends with the error e.
Ended(p, e) ==
    [p EXCEPT !.pc = "done", !.err = e, !.state = EmptyMap, !.had = FALSE]

\* Switch returns the error of validateStageTable or validateStagePair.
SwitchRefused ==
    /\ procs.n < MaxOps
    /\ \E call \in SwitchCalls :
        /\ call.err # ""
        /\ procs' = [procs EXCEPT
                       !.n = @ + 1,
                       !.out = Outcome("Switch", call.cfg, call.stage,
                                       [err |-> call.err, stage |-> "",
                                        loaded |-> ""])]
    /\ UNCHANGED <<cfg, store, files, run, written, runs, probe, probeOut, watch>>

\* Switch up to the call of storeStage.  The history: busy is the number of
\* calls in a group of overlapping calls.
SwitchStart ==
    /\ procs.n < MaxOps
    /\ \E i \in DOMAIN procs.sw, call \in SwitchCalls :
        /\ ~InFlight(procs.sw[i])
        /\ call.err = ""
        /\ procs' = [procs EXCEPT
                       !.n = @ + 1,
                       !.switched[call.cfg.path] = "",
                       !.serial = @ /\ AllQuiet,
                       !.busy = IF AllQuiet THEN 1 ELSE @ + 1,
                       !.sw[i] = [IdleSwitch EXCEPT !.pc = "read",
                                                    !.cfg = call.cfg,
                                                    !.stage = call.stage]]
    /\ UNCHANGED <<cfg, store, files, run, written, runs, probe, probeOut, watch>>

\* storeStage: os.ReadFile, json.Unmarshal, state[cfg.path] = ...
SwitchRead ==
    /\ \E i \in DOMAIN procs.sw :
        /\ procs.sw[i].pc = "read"
        /\ \E p \in {procs.sw[i]}, r \in {storeRead(store)} :
            procs' =
              IF r.err # ""
              THEN [procs EXCEPT !.sw[i] = Ended(p, r.err)]
              ELSE [procs EXCEPT
                      !.sw[i] = [p EXCEPT
                                   !.pc = "open",
                                   !.had = p.cfg.path.segs \in DOMAIN r.state,
                                   !.state = Put(r.state, p.cfg.path.segs,
                                                 Selection(p.stage))]]
    /\ UNCHANGED <<cfg, store, files, run, written, runs, probe, probeOut, watch>>

\* storeStage: os.WriteFile opens the state file, which truncates it.
SwitchOpen ==
    /\ \E i \in DOMAIN procs.sw :
        /\ procs.sw[i].pc = "open"
        /\ procs' = [procs EXCEPT !.sw[i].pc = "write"]
        /\ store' = storeOpen(store)
    /\ UNCHANGED <<cfg, files, run, written, runs, probe, probeOut, watch>>

\* storeStage: os.WriteFile writes the text and closes the file, and Switch
\* returns; with the fault the write fails and the file stays as it is.
SwitchWrite ==
    /\ \E i \in DOMAIN procs.sw, fault \in {"none", "write"} :
        /\ procs.sw[i].pc = "write"
        /\ \E p \in {procs.sw[i]} :
            IF fault # "none"
            THEN /\ procs' = [procs EXCEPT
                                !.serial = FALSE,
                                !.sw[i] = Ended(p, "ErrWrite")]
                 /\ store' = store
            ELSE /\ procs' = [procs EXCEPT
                                !.switched[p.cfg.path] = p.stage,
                                !.kept[p.cfg.path] =
                                    [has |-> TRUE, v |-> Selection(p.stage)],
                                !.sw[i] = Ended(p, "")]
                 /\ store' = storeWrite(store, p.state, p.cfg.path.segs)
    /\ UNCHANGED <<cfg, files, run, written, runs, probe, probeOut, watch>>

CallCurrent ==
    /\ procs.n < MaxOps
    /\ \E c \in StoreCfgs :
        procs' = [procs EXCEPT
                    !.n = @ + 1,
                    !.out = Outcome("Current", c, "",
                                    Current(c, store, ValidateFsys))]
    /\ UNCHANGED <<cfg, store, files, run, written, runs, probe, probeOut, watch>>

\* Run, for the run command, for Watch and for its reruns, up to the loop.
CallRun ==
    /\ procs.n < MaxOps
    /\ \E c \in StoreCfgs :
        \E pre \in {runPrelude(c, store, ValidateFsys)} :
          procs' = [procs EXCEPT
                      !.n = @ + 1, !.out = Outcome("Run", c, "", staged(pre))]
    /\ UNCHANGED <<cfg, store, files, run, written, runs, probe, probeOut, watch>>

\* List, up to the loop: the same calls as in Run.
CallList ==
    /\ procs.n < MaxOps
    /\ \E c \in StoreCfgs :
        \E pre \in {runPrelude(c, store, ValidateFsys)} :
          procs' = [procs EXCEPT
                      !.n = @ + 1, !.out = Outcome("List", c, "", staged(pre))]
    /\ UNCHANGED <<cfg, store, files, run, written, runs, probe, probeOut, watch>>

NextStore ==
    \/ SwitchRefused
    \/ SwitchStart
    \/ SwitchRead
    \/ SwitchOpen
    \/ SwitchWrite
    \/ CallCurrent
    \/ CallRun
    \/ CallList

SpecStore == InitStore /\ [][NextStore]_vars

Loads == {"Current", "Run", "List"}

\* C14: after a successful Switch(s) on a configuration path, and with no
\* later Switch on that path, the stage loaded from the store for the path
\* is s: Current reports s, and List and Run use s, whatever Switch did on
\* other configuration paths in between.
C14_SwitchThenLoad ==
    (/\ procs.out.op \in Loads
     /\ procs.out.expect # ""
     /\ procs.out.r.err # "ErrStageTableEmpty") =>
        /\ procs.out.r.loaded = procs.out.expect
        /\ procs.out.r.err = "" => procs.out.r.stage = procs.out.expect
        /\ (procs.out.op = "Current" /\ procs.out.cfg.Stage = FullStages)
               => procs.out.r.err = ""

\* The statement of C14 in the behaviours in which no two calls of Switch
\* overlapped and no write of the state file failed, for the operations
\* called while no process is inside storeStage.
SerialSwitchThenLoad ==
    (/\ procs.out.op \in Loads
     /\ procs.out.expect # ""
     /\ procs.out.r.err # "ErrStageTableEmpty"
     /\ procs.out.quiet
     /\ procs.serial) =>
        /\ procs.out.r.loaded = procs.out.expect
        /\ procs.out.r.err = "" => procs.out.r.stage = procs.out.expect
        /\ (procs.out.op = "Current" /\ procs.out.cfg.Stage = FullStages)
               => procs.out.r.err = ""

\* C15: the selection recorded for a configuration path changes only through
\* a successful Switch on that same path: once the calls of Switch have
\* returned, the store holds for every path the entry it held at first or
\* the one that the latest successful Switch on that path stored, whatever
\* Switch did on other paths and whatever Current, List and Run did.
C15_OnlyOwnSwitch ==
    AllQuiet => \A path \in AllPaths : Sel(store, path) = procs.kept[path]

\* The statement of C15 in the behaviours in which no two calls of Switch
\* overlapped and no write of the state file failed.
SerialOnlyOwnSwitch ==
    (AllQuiet /\ procs.serial) =>
        \A path \in AllPaths : Sel(store, path) = procs.kept[path]

\* The conditions under which Switch is to fail before it persists.
Refused(c, fsys, stage) ==
    \/ DOMAIN c.Stage = {}
    \/ stage \notin DOMAIN c.Stage
    \/ ~InsideRoot(c, c.Stage[stage])
    \/ AbsOf(c, c.Stage[stage]).segs \notin DOMAIN fsys.files

\* The step is a Switch that returns before storeStage.
RefusedStep ==
    /\ procs'.n = procs.n + 1
    /\ procs'.sw = procs.sw
    /\ procs'.out.op = "Switch"
    /\ procs'.out.r.err # ""
    /\ store' = store

\* The step is the successful return of a Switch for whose path the state
\* file held no entry.
AddsEntry(i) ==
    /\ procs.sw[i].pc = "write"
    /\ procs'.sw[i].pc = "done"
    /\ procs'.sw[i].err = ""
    /\ ~procs.sw[i].had

\* C16: Switch validates before it persists.  A Switch of a stage that is
\* not declared (the empty name included), or whose path escapes the root,
\* is missing or is a directory, or with an empty stage table, fails and
\* leaves the store as it was; a successful Switch for a path without entry
\* adds the entry.
C16_ValidateBeforePersist ==
    [][/\ \A i \in DOMAIN procs.sw :
             (procs'.sw[i].pc = "read" /\ procs.sw[i].pc # "read") =>
                 ~Refused(procs'.sw[i].cfg, ValidateFsys, procs'.sw[i].stage)
       /\ (procs'.n = procs.n + 1 /\ procs'.out.op = "Switch"
           /\ procs'.out # procs.out) => RefusedStep
       /\ \A i \in DOMAIN procs.sw :
             AddsEntry(i) =>
                 Sel(store', procs.sw[i].cfg.path) =
                     [has |-> TRUE, v |-> Selection(procs.sw[i].stage)]]_vars

\* The statement of C16 for the calls of Switch that overlap no other.
SerialValidateBeforePersist ==
    [][/\ \A i \in DOMAIN procs.sw :
             (procs'.sw[i].pc = "read" /\ procs.sw[i].pc # "read") =>
                 ~Refused(procs'.sw[i].cfg, ValidateFsys, procs'.sw[i].stage)
       /\ (procs'.n = procs.n + 1 /\ procs'.out.op = "Switch"
           /\ procs'.out # procs.out) => RefusedStep
       /\ \A i \in DOMAIN procs.sw :
             (AddsEntry(i) /\ procs.serial) =>
                 Sel(store', procs.sw[i].cfg.path) =
                     [has |-> TRUE, v |-> Selection(procs.sw[i].stage)]]_vars

\* The conditions under which Current is to succeed, for the entry sel that
\* the state file held for the path of the Config c.
Reportable(c, fsys, sel) ==
    /\ DOMAIN c.Stage # {}
    /\ sel.has
    /\ "stage" \in DOMAIN sel.v
    /\ sel.v.stage \in DOMAIN c.Stage
    /\ IsFileInRoot(c, fsys, c.Stage[sel.v.stage])

\* C17: Current succeeds if and only if the stage table is non-empty, the
\* store holds a selection for the path of the configuration, and the
\* recorded stage is declared and resolves to an existing non-directory
\* inside the project root; no group table is needed.
C17_CurrentIff ==
    procs.out.op = "Current" =>
        (procs.out.r.err = "" <=>
            Reportable(procs.out.cfg, ValidateFsys, procs.out.sel))

\* The equivalence of C17 on the configurations whose stages have no path
\* with a name beginning with two dots.
CurrentIffWithoutDotDotNames ==
    (procs.out.op = "Current" /\ NoDotDotName(procs.out.cfg)) =>
        (procs.out.r.err = "" <=>
            Reportable(procs.out.cfg, ValidateFsys, procs.out.sel))

\* Two calls of Switch overlapped, both returned without error, and no call
\* of Switch has entered storeStage since.
TwoRaced ==
    /\ procs.busy = 2
    /\ \A i \in DOMAIN procs.sw : procs.sw[i].pc \in {"idle", "done"}
    /\ Cardinality({i \in DOMAIN procs.sw :
                       procs.sw[i].pc = "done" /\ procs.sw[i].err = ""}) = 2
    /\ \A i \in DOMAIN procs.sw : procs.sw[i].err = ""

\* C18: after two racing calls of Switch have both returned successfully,
\* the store is a well-formed mapping that holds a selection for each of
\* their configuration paths (for the same path, the stage of the last
\* writer) and still holds every selection that it held before.
C18_RacingSwitch ==
    TwoRaced =>
        /\ store.exists /\ store.form = "json"
        /\ \A i \in {j \in DOMAIN procs.sw : procs.sw[j].pc = "done"} :
              /\ Sel(store, procs.sw[i].cfg.path).has
              /\ Sel(store, procs.sw[i].cfg.path).v =
                     Selection(procs.switched[procs.sw[i].cfg.path])
        /\ \A path \in AllPaths :
              path \notin {procs.sw[j].cfg.path :
                               j \in {h \in DOMAIN procs.sw : procs.sw[h].pc = "done"}}
                  => Sel(store, path) = procs.kept[path]

(***************************************************************************)
(* Config.Watch: the watcher, the initial Run, the subscription and the    *)
(* loop that reruns on the events of the central env file.                 *)
(***************************************************************************)
MaxEvents == 2      \* events the watcher delivers in one behaviour
MaxSwitches == 1    \* calls of Switch by other processes during one Watch

\* The operations fsnotify reports with an event (event.Op is a bit set).
WatchOps ==
    {{"create"}, {"write"}, {"remove"}, {"rename"}, {"chmod"},
     {"write", "chmod"}}

\* The names fsnotify reports for the directory dir: the entries below it.
WatchNames(dir) ==
    {Join(dir, Path(FALSE, <<".env">>)), Join(dir, Path(FALSE, <<"lem.toml">>))}

\* What an edit may leave in the central env file.
WatchContents ==
    {FirstCentral, Line(KeyAX, <<>>) \o Line(KeyUX, <<"'", "'">>)}

isTarget(event, stagePath) == event.name = stagePath

isCreateEvent(event) == "create" \in event.op

isWriteEvent(event) == "write" \in event.op

\* A variant of the condition of the loop that looks at the name only.
rerunWantedAnyOp(event, stagePath) == isTarget(event, stagePath)

\* The condition under which the loop calls Run again.
rerunWanted(event, stagePath) ==
    isTarget(event, stagePath) /\ (isWriteEvent(event) \/ isCreateEvent(event))

\* Watch before its call.
WatchIdle ==
    [pc |-> "idle", stagePath |-> NoPath, ret |-> NoPath, err |-> "",
     first |-> "", added |-> FALSE, atAdd |-> 0, subscribed |-> FALSE,
     loop |-> FALSE, calls |-> 0, reruns |-> 0, events |-> <<>>,
     taken |-> <<>>, made |-> 0, stage0 |-> "", switches |-> 0,
     missed |-> 0]

\* Watch returns the error e and the empty path; the deferred Close ends the
\* delivery of events.
WatchFailed(w, e) ==
    [w EXCEPT !.pc = "returned", !.err = e, !.ret = NoPath]

\* The record of a call of Run whose part before the loop gave pre.
called(pre) ==
    IF pre.err # ""
    THEN [Idle EXCEPT !.op = "Run", !.pc = "done", !.err = pre.err,
                      !.stage = pre.stage, !.before = files]
    ELSE [Idle EXCEPT !.op = "Run", !.pc = "loop",
                      !.todo = DOMAIN cfg.Group, !.stage = pre.stage,
                      !.path = pre.path, !.env = pre.env,
                      !.before = files, !.again = Repeats(pre.path.segs),
                      !.printed = <<stagedLine(pre.stage, pre.path)>>]

\* A variant of afterRun that goes on to subscribe whatever Run returned.
afterRunIgnoringError(w, r) ==
    [w EXCEPT !.pc = "add", !.stagePath = r.ret, !.stage0 = r.stage,
              !.first = IF r.err # "" THEN "failed" ELSE "ok"]

\* Watch after the initial Run returned r: the error is returned at once.
afterRun(w, r) ==
    IF r.err # ""
    THEN [WatchFailed(w, r.err) EXCEPT !.first = "failed"]
    ELSE [w EXCEPT !.pc = "add", !.stagePath = r.ret, !.stage0 = r.stage,
                   !.first = "ok"]

\* A variant of afterRerun in which the loop goes on after a failed rerun.
afterRerunRetrying(w, r) == [w EXCEPT !.pc = "select"]

\* The loop after the Run it called returned r: an error is sent to done,
\* which ends the loop and Watch.
afterRerun(w, r) ==
    IF r.err # "" THEN WatchFailed(w, r.err)
    ELSE [w EXCEPT !.pc = "select"]

\* The configurations Watch is called on.
WatchGroups ==
    {g \in GroupTables :
        \/ g = EmptyMap
        \/ /\ g["api"] = HereGroup \/ g["api"].Replaceable = <<>>
           /\ g["ui"].Dir \in {Path(TRUE, <<"repo", "ui">>),
                               Rel1(<<"..", "nope">>)}}

\* The central env file of the second stage, and its content.
ProdPath == <<"repo", "conf", "prod.env">>

ProdCentral == Line(KeyAX, <<"2">>) \o Line(KeyUX, <<"2">>) \o Line(KeyB, <<"2">>)

\* The stage table of the watched configurations: two stages whose central
\* env files lie side by side.
WatchStages == ("default" :> Rel1(<<".env">>)) @@ ("prod" :> Rel1(<<"prod.env">>))

WatchStarts ==
    {[doc |-> [Stage |-> IF s.doc.Stage = EmptyMap THEN EmptyMap
                         ELSE WatchStages,
               Group |-> s.doc.Group],
      st |-> s.st] : s \in {t \in Starts : t.doc.Group \in WatchGroups}}

InitWatch ==
    /\ files = (CentralPath :> FirstCentral) @@ (ProdPath :> ProdCentral)
    /\ \E s \in WatchStarts :
        /\ cfg = Load([dirs |-> Dirs, files |-> files], ConfigPath, s.doc)
        /\ store = s.st
    /\ runs = 0
    /\ run = Idle
    /\ written = {}
    /\ probe = NoProbe
    /\ probeOut = NotDone
    /\ procs = NoProcs
    /\ watch = WatchIdle

\* Watch: fsnotify.NewWatcher, which may fail.
WatchNew ==
    /\ watch.pc = "idle"
    /\ \E fault \in {"none", "watcher"} :
        watch' = IF fault = "watcher"
                 THEN WatchFailed(watch, "ErrCreateWatcher")
                 ELSE [watch EXCEPT !.pc = "run"]
    /\ UNCHANGED <<cfg, store, files, run, written, runs, probe, probeOut, procs>>

\* Watch: the initial call of Run, up to the loop of Run.
WatchRun ==
    /\ watch.pc = "run"
    /\ runs' = runs + 1
    /\ \E pre \in {runPrelude(cfg, store, [dirs |-> Dirs, files |-> files])} :
        run' = called(pre)
    /\ watch' = [watch EXCEPT !.pc = "running", !.calls = @ + 1]
    /\ UNCHANGED <<cfg, store, files, written, probe, probeOut, procs>>

\* Watch: the initial Run has returned.
WatchRan ==
    /\ watch.pc = "running"
    /\ run.pc = "done"
    /\ watch' = afterRun(watch, run)
    /\ UNCHANGED <<cfg, store, files, run, written, runs, probe, probeOut, procs>>

\* Watch: watcher.Add on the directory of the stage path, then the start of
\* the goroutine with the loop.
WatchAdd ==
    /\ watch.pc = "add"
    /\ \E fault \in {"none", "add"} :
        watch' = IF fault = "add"
                 THEN [WatchFailed(watch, "ErrAddDir") EXCEPT
                          !.added = TRUE, !.atAdd = watch.calls]
                 ELSE [watch EXCEPT !.pc = "select", !.added = TRUE,
                                    !.atAdd = watch.calls,
                                    !.subscribed = TRUE, !.loop = TRUE]
    /\ UNCHANGED <<cfg, store, files, run, written, runs, probe, probeOut, procs>>

\* Something happens to an entry of the watched directory and the watcher
\* queues the event: the central env file is created, written, removed,
\* renamed away or chmod-ed, or the configuration file next to it is created
\* or written (the model does not follow its content).
Notify ==
    /\ watch.subscribed
    /\ watch.pc # "returned"
    /\ watch.made < MaxEvents
    /\ \E name \in WatchNames(Dir(watch.stagePath)), op \in WatchOps :
        /\ \/ name = ConfigPath /\ op \in {{"create"}, {"write"}}
           \/ name # ConfigPath /\ name.segs \notin DOMAIN files /\ op = {"create"}
           \/ name # ConfigPath /\ name.segs \in DOMAIN files /\ op # {"create"}
        /\ watch' = [watch EXCEPT !.events = Append(@, [name |-> name, op |-> op]),
                                  !.made = @ + 1]
        /\ IF name = ConfigPath THEN files' = files
           ELSE IF "remove" \in op \/ "rename" \in op
           THEN files' = [p \in DOMAIN files \ {name.segs} |-> files[p]]
           ELSE IF "create" \in op \/ "write" \in op
           THEN \E content \in WatchContents :
                   files' = Put(files, name.segs, content)
           ELSE files' = files
    /\ UNCHANGED <<cfg, store, run, written, runs, probe, probeOut, procs>>

\* The central env file is written while the initial Run is under way or
\* has returned, before watcher.Add: no watcher reports it.
EditUnwatched ==
    /\ watch.pc \in {"running", "add"}
    /\ watch.made < MaxEvents
    /\ CentralPath \in DOMAIN files
    /\ \E content \in WatchContents :
        /\ content # files[CentralPath]
        /\ files' = Put(files, CentralPath, content)
    /\ watch' = [watch EXCEPT !.made = @ + 1, !.missed = @ + 1]
    /\ UNCHANGED <<cfg, store, run, written, runs, probe, probeOut, procs>>

\* Another process calls Switch for the same configuration while Watch is
\* subscribed: the checks of Switch, then storeStage on the state file.
WatchSwitch ==
    /\ watch.subscribed
    /\ watch.pc # "returned"
    /\ watch.switches < MaxSwitches
    /\ \E stage \in DOMAIN cfg.Stage :
        /\ switchCheck(cfg, [dirs |-> Dirs, files |-> files], stage) = ""
        /\ storeRead(store).err = ""
        /\ store' = storeWrite(storeOpen(store),
                               Put(storeRead(store).state, cfg.path.segs,
                                   Selection(stage)),
                               cfg.path.segs)
    /\ watch' = [watch EXCEPT !.switches = @ + 1]
    /\ UNCHANGED <<cfg, files, run, written, runs, probe, probeOut, procs>>

\* The loop receives an event: on a create or write of the stage path it
\* calls Run again, every other event is dropped.
WatchEvent ==
    /\ watch.pc = "select"
    /\ watch.events # <<>>
    /\ \E event \in {Head(watch.events)} :
        IF rerunWanted(event, watch.stagePath)
        THEN /\ runs' = runs + 1
             /\ \E pre \in {runPrelude(cfg, store,
                                       [dirs |-> Dirs, files |-> files])} :
                  run' = called(pre)
             /\ watch' = [watch EXCEPT
                             !.pc = "rerunning",
                             !.events = Tail(@),
                             !.taken = Append(@, [ev |-> event, rerun |-> TRUE]),
                             !.calls = @ + 1,
                             !.reruns = @ + 1]
        ELSE /\ watch' = [watch EXCEPT
                             !.events = Tail(@),
                             !.taken = Append(@, [ev |-> event, rerun |-> FALSE])]
             /\ UNCHANGED <<run, runs>>
    /\ UNCHANGED <<cfg, store, files, written, probe, probeOut, procs>>

\* The Run called by the loop has returned: its error ends the loop and is
\* what Watch returns, otherwise the loop waits for the next event.
WatchReran ==
    /\ watch.pc = "rerunning"
    /\ run.pc = "done"
    /\ watch' = afterRerun(watch, run)
    /\ UNCHANGED <<cfg, store, files, run, written, runs, probe, probeOut, procs>>

\* The loop receives an error of the watcher, which ends the loop and is
\* what Watch returns.
WatchError ==
    /\ watch.pc = "select"
    /\ watch' = WatchFailed(watch, "ErrWatcher")
    /\ UNCHANGED <<cfg, store, files, run, written, runs, probe, probeOut, procs>>

NextWatch ==
    \/ WatchNew
    \/ WatchRun
    \/ RunGroup
    \/ RunEnvrc
    \/ RunWrite
    \/ RunReturn
    \/ WatchRan
    \/ WatchAdd
    \/ EditUnwatched
    \/ Notify
    \/ WatchSwitch
    \/ WatchEvent
    \/ WatchReran
    \/ WatchError

SpecWatch == InitWatch /\ [][NextWatch]_vars

(***************************************************************************)
(* Claims about Watch.                                                     *)
(***************************************************************************)

\* The initial Run of Watch returned an error.
FirstRunFailed == watch.first = "failed"

\* What Watch does when its initial Run fails: it returns the error of that
\* Run with the empty path, it never subscribes to the directory, never
\* starts the loop and calls Run no second time.
StopsAtFirstError ==
    FirstRunFailed =>
        /\ watch.pc = "returned"
        /\ run.err # ""
        /\ watch.err = run.err
        /\ watch.ret = NoPath
        /\ ~watch.added
        /\ ~watch.subscribed
        /\ ~watch.loop
        /\ watch.calls = 1
        /\ watch.reruns = 0
        /\ watch.taken = <<>>
        /\ watch.events = <<>>

\* C19, as stated: Watch performs exactly one Run before anything else, so
\* a Watch that has returned has called Run, and one that subscribes has
\* called it exactly once; if that Run fails, Watch returns its error with
\* an empty path, never subscribes, never starts the loop and reruns nothing.
C19_AsStated ==
    /\ watch.pc = "returned" => watch.calls >= 1
    /\ watch.added => watch.atAdd = 1
    /\ StopsAtFirstError

\* C19: Watch creates the watcher first, and when that fails it returns an
\* error with an empty path without any Run.  Otherwise it performs exactly
\* one Run before it subscribes; if that Run fails, Watch returns its error
\* with an empty path, never subscribes, never starts the loop and reruns
\* nothing.
C19_RunBeforeSubscribe ==
    /\ watch.err = "ErrCreateWatcher" =>
          /\ watch.pc = "returned"
          /\ watch.ret = NoPath
          /\ watch.calls = 0
          /\ run = Idle
          /\ ~watch.added
          /\ ~watch.loop
    /\ (watch.pc = "returned" /\ watch.err # "ErrCreateWatcher") =>
          watch.calls >= 1
    /\ watch.pc = "add" => (watch.calls = 1 /\ watch.first = "ok")
    /\ watch.added => (watch.atAdd = 1 /\ watch.first = "ok")
    /\ watch.loop => watch.subscribed
    /\ StopsAtFirstError

\* The initial Run of Watch failed and Watch has returned.
C19_Witness ==
    /\ FirstRunFailed
    /\ watch.pc = "returned"
    /\ watch.err # ""

\* An event that is to trigger a rerun: its name is the resolved path of the
\* central env file and its operation includes create or write.
Qualifying(event) ==
    /\ event.name = Path(TRUE, CentralPath)
    /\ event.op \cap {"create", "write"} # {}

\* The events the loop has received that satisfy P, as positions in taken.
Received(P(_)) == {i \in DOMAIN watch.taken : P(watch.taken[i].ev)}

\* The qualifying events that wait in the channel of the watcher.
Waiting == {i \in DOMAIN watch.events : Qualifying(watch.events[i])}

\* C20: in the loop each received event whose name is the resolved central
\* env path and whose operation includes create or write triggers exactly
\* one rerun, every other received event triggers none, and the number of
\* reruns never exceeds the number of qualifying events delivered.
C20_OneRerunPerEvent ==
    /\ \A i \in DOMAIN watch.taken :
          watch.taken[i].rerun <=> Qualifying(watch.taken[i].ev)
    /\ watch.reruns = Cardinality(Received(Qualifying))
    /\ watch.reruns <= Cardinality(Received(Qualifying)) + Cardinality(Waiting)
    /\ watch.calls <= 1 + watch.reruns
    /\ watch.loop => watch.calls = 1 + watch.reruns
    /\ watch.taken # <<>> => watch.stagePath = Path(TRUE, CentralPath)

\* The loop has received a create or write of the central env file, which it
\* answered with a rerun, and an event of another kind, which it dropped.
C20_Witness ==
    /\ \E i \in DOMAIN watch.taken :
          /\ watch.taken[i].rerun
          /\ "write" \in watch.taken[i].ev.op
    /\ \E i \in DOMAIN watch.taken :
          /\ ~watch.taken[i].rerun
          /\ watch.taken[i].ev.name = watch.stagePath
          /\ watch.taken[i].ev.op = {"chmod"}

\* A rerun called by the loop of Watch has got as far as loading a stage.
Rerunning ==
    /\ watch.reruns >= 1
    /\ run.op = "Run"
    /\ run.stage # ""

\* C22: every rerun that Watch triggers distributes the stage of the initial
\* Run, read from the central env file that Watch is watching, also when
\* another process calls Switch for the same configuration meanwhile.
C22_RerunSameStage ==
    Rerunning =>
        /\ run.stage = watch.stage0
        /\ run.path # NoPath => run.path = watch.stagePath

\* The statement of C22 in the behaviours without a Switch during the watch.
RerunSameStageWithoutSwitch ==
    (Rerunning /\ watch.switches = 0) =>
        /\ run.stage = watch.stage0
        /\ run.path # NoPath => run.path = watch.stagePath

\* Watch has returned after a successful initial Run.
ReturnedFromLoop == watch.first = "ok" /\ watch.pc = "returned"

\* Watch returned the error of the watcher or the error of a failed rerun.
LoopError ==
    \/ watch.err = "ErrWatcher"
    \/ /\ watch.reruns >= 1
       /\ run.err # ""
       /\ watch.err = run.err

\* A rerun that failed has ended Watch with its error.
NoRetry ==
    (watch.reruns >= 1 /\ run.pc = "done" /\ run.err # ""
        /\ watch.pc # "rerunning") =>
            (watch.pc = "returned" /\ watch.err = run.err)

\* Once Watch has returned no event is received and Run is not called.
NothingAfterReturn ==
    watch.pc = "returned" =>
        /\ watch'.taken = watch.taken
        /\ watch'.calls = watch.calls
        /\ watch'.pc = "returned"
        /\ watch'.err = watch.err
        /\ run' = run
        /\ runs' = runs
        /\ files' = files

\* C23, as stated: after a successful initial Run, Watch returns only when
\* the watcher reports an error or a rerun fails, with that error and an
\* empty path, and after it nothing is processed or rerun.
C23_AsStated ==
    [][/\ ReturnedFromLoop' => (LoopError' /\ watch'.ret = NoPath)
       /\ NoRetry'
       /\ NothingAfterReturn]_vars

\* C23: after a successful initial Run, Watch returns only when subscribing
\* to the directory fails, when the watcher reports an error or when a rerun
\* fails; it returns that error with an empty path, and from then on no
\* event is processed and no rerun is attempted.
C23_ReturnsOnFirstError ==
    [][/\ ReturnedFromLoop' =>
             /\ \/ LoopError'
                \/ /\ watch'.err = "ErrAddDir"
                   /\ ~watch'.subscribed /\ ~watch'.loop
                   /\ watch'.calls = 1 /\ watch'.taken = <<>>
             /\ watch'.ret = NoPath
       /\ NoRetry'
       /\ NothingAfterReturn]_vars

\* A rerun has failed and Watch has returned its error while an event still
\* waits in the channel of the watcher.
C23_Witness ==
    /\ ReturnedFromLoop
    /\ watch.reruns >= 1
    /\ run.err # ""
    /\ watch.err = run.err
    /\ watch.events # <<>>

\* The file .env of every group holds the serialization of the partition of
\* what the watched central env file holds now.
Reflects ==
    \A id \in DOMAIN cfg.Group :
        /\ EnvPathOf(id) # {}
        /\ \A p \in EnvPathOf(id) :
              /\ p \in DOMAIN files
              /\ files[p] \in
                    {Serialized(o) :
                        o \in makeEnvResults(
                                 cfg.Group[id],
                                 readEnv([dirs |-> Dirs, files |-> files],
                                         watch.stagePath.segs).env)}

\* Watch is active and has nothing left to do: the loop waits, the channel
\* of the watcher is empty, and the central env file exists.
Quiescent ==
    /\ watch.pc = "select"
    /\ watch.events = <<>>
    /\ watch.stagePath.segs \in DOMAIN files

\* C21: while Watch is active, every create or write of the central env
\* file is eventually followed by a completed rerun, so that the file .env
\* of each group eventually reflects the latest content of the central
\* file.  A behaviour may end in any state in which Watch has nothing left
\* to do, so in every such state the files reflect the central env file.
C21_EditLeadsToRerun == Quiescent => Reflects

\* The statement of C21 for the configurations in which no group delivers
\* into the directory of the central env file, in the behaviours without a
\* Switch during the watch and without a write of the central env file
\* between the initial Run and the subscription.
EditLeadsToRerunWithoutSwitch ==
    (/\ Quiescent
     /\ watch.switches = 0
     /\ watch.missed = 0
     /\ \A id \in DOMAIN cfg.Group : cfg.Group[id] # HereGroup) => Reflects

(***************************************************************************)
(* Claims about the status lines of Run.                                   *)
(***************************************************************************)

\* The groups whose file .env the latest Run created or overwrote.
WroteEnv ==
    {run.log[i].id : i \in {j \in DOMAIN run.log : Last(run.log[j].path) = ".env"}}

\* The positions of the distributed lines among the lines Run printed.
DistributedAt ==
    {i \in DOMAIN run.printed : run.printed[i].kind = "distributed"}

\* One distributed line per group whose file was written, none for another
\* group, and the lines in ascending order.
OneLinePerWrittenGroup ==
    /\ \A id \in DOMAIN cfg.Group :
          Cardinality({i \in DistributedAt : run.printed[i].id = id})
              = IF id \in WroteEnv THEN 1 ELSE 0
    /\ \A i, j \in DistributedAt :
          i < j => StrLess(run.printed[i].text, run.printed[j].text)

\* C24: Run emits exactly one distributed status line for every group whose
\* file .env it wrote, and these lines appear in ascending order whatever
\* the order in which the groups were processed.
C24_StatusLines == Returned => OneLinePerWrittenGroup

\* The statement of C24 for the calls of Run that return no error.
StatusLinesOfSuccessfulRun ==
    (Returned /\ run.err = "") =>
        /\ OneLinePerWrittenGroup
        /\ WroteEnv = DOMAIN cfg.Group

\* A Run that returned an error printed no distributed line.
NoStatusLinesOfFailedRun ==
    (Returned /\ run.err # "") => DistributedAt = {}

(***************************************************************************)
(* List: the entries of every group for the selected stage.                *)
(***************************************************************************)
Entry(name, group, type, key, value) ==
    [Group |-> name, Prefix |-> group.Prefix, Type |-> type, Name |-> key,
     Value |-> value]

\* for k, v := range e { if after, ok := strings.CutPrefix(k, prefix+"_") },
\* with the keys in the order keys of the range loop.
RECURSIVE cutEntries(_, _, _, _, _, _)
cutEntries(name, group, type, prefix, e, keys) ==
    IF keys = <<>> THEN <<>>
    ELSE LET k == Head(keys)
             p == prefix \o <<"_">>
         IN (IF HasPrefix(k, p)
             THEN <<Entry(name, group, type, SubSeq(k, Len(p) + 1, Len(k)),
                          e[k])>>
             ELSE <<>>)
            \o cutEntries(name, group, type, prefix, e, Tail(keys))

\* for _, prefix := range group.Replaceable
RECURSIVE indirectEntries(_, _, _, _, _)
indirectEntries(name, group, alts, e, keys) ==
    IF alts = <<>> THEN <<>>
    ELSE cutEntries(name, group, "indirect", Head(alts), e, keys)
         \o indirectEntries(name, group, Tail(alts), e, keys)

\* for _, key := range group.Plain { if v, ok := e[key]; ok }
RECURSIVE plainEntries(_, _, _, _)
plainEntries(name, group, plain, e) ==
    IF plain = <<>> THEN <<>>
    ELSE (IF Head(plain) \in DOMAIN e
          THEN <<Entry(name, group, "plain", Head(plain), e[Head(plain)])>>
          ELSE <<>>)
         \o plainEntries(name, group, Tail(plain), e)

\* The body of the loop over the groups, for the groups ids in their order.
RECURSIVE listEntries(_, _, _, _)
listEntries(c, e, ids, keys) ==
    IF ids = <<>> THEN <<>>
    ELSE LET name == Head(ids)
             group == c.Group[name]
         IN cutEntries(name, group, "direct", group.Prefix, e, keys)
            \o indirectEntries(name, group, group.Replaceable, e, keys)
            \o plainEntries(name, group, group.Plain, e)
            \o listEntries(c, e, Tail(ids), keys)

\* The characters of Entry.Type.
TypeText(t) ==
    CASE t = "direct" -> <<"d", "i", "r", "e", "c", "t">>
      [] t = "indirect" -> <<"i", "n", "d", "i", "r", "e", "c", "t">>
      [] t = "plain" -> <<"p", "l", "a", "i", "n">>

\* A variant of entryLess that does not compare Type.
entryLessNoType(a, b) ==
    IF a.Group # b.Group THEN StrLess(IdText(a.Group), IdText(b.Group))
    ELSE StrLess(a.Name, b.Name)

\* The comparison function of List is negative for (a, b).
entryLess(a, b) ==
    IF a.Group # b.Group THEN StrLess(IdText(a.Group), IdText(b.Group))
    ELSE IF a.Type # b.Type THEN StrLess(TypeText(a.Type), TypeText(b.Type))
    ELSE StrLess(a.Name, b.Name)

\* slices.SortFunc on the entries at the positions I: the sort is not
\* stable, so entries the comparison does not separate come in any order.
RECURSIVE sortFuncOver(_, _)
sortFuncOver(entries, I) ==
    IF I = {} THEN {<<>>}
    ELSE UNION {{<<entries[i]>> \o s : s \in sortFuncOver(entries, I \ {i})} :
                   i \in {j \in I :
                             \A k \in I : ~entryLess(entries[k], entries[j])}}

sortFunc(entries) == sortFuncOver(entries, DOMAIN entries)

\* List after its prelude pre (the same steps as the prelude of Run), with
\* the orders of the two range loops over maps.
List(c, pre, ids, keys) ==
    IF pre.err # "" THEN {[entries |-> <<>>, err |-> pre.err]}
    ELSE {[entries |-> s, err |-> ""] :
             s \in sortFunc(listEntries(c, pre.env, ids, keys))}

ListApiGroups ==
    {[Prefix |-> <<"A">>, Dir |-> Rel1(<<"..", "api">>), Replaceable |-> r,
      Plain |-> p, DirenvSupport |-> <<>>, IsCheck |-> FALSE] :
        r \in {<<>>, <<<<"L">>>>, <<<<"L">>, <<"U">>>>, <<<<"L">>, <<"L">>>>},
        p \in {<<>>, <<KeyB>>, <<KeyB, KeyUX>>}}

ListUiGroups ==
    {[Prefix |-> <<"U">>, Dir |-> Path(TRUE, <<"repo", "ui">>),
      Replaceable |-> r, Plain |-> p, DirenvSupport |-> <<>>,
      IsCheck |-> FALSE] :
        r \in {<<>>, <<<<"L">>>>}, p \in {<<>>, <<KeyB>>}}

ListGroupTables ==
    {("api" :> a) @@ ("ui" :> u) : a \in ListApiGroups, u \in ListUiGroups}
    \cup {EmptyMap}

SelectedProd == StateFile(Put(EmptyMap, ConfigPath.segs, Selection("prod")))

ListCentrals ==
    {FirstCentral,
     Line(KeyLX, <<"1">>) \o Line(KeyUX, <<"2">>) \o Line(KeyB, <<"1">>)}

InitList ==
    /\ \E central \in ListCentrals :
        files = (CentralPath :> central) @@ (ProdPath :> ProdCentral)
    /\ \E g \in ListGroupTables :
        cfg = Load([dirs |-> Dirs, files |-> files], ConfigPath,
                   [Stage |-> WatchStages, Group |-> g])
    /\ store \in {Selected, SelectedProd, NoStateFile}
    /\ runs = 0
    /\ run = Idle
    /\ written = {}
    /\ probe = [fn |-> "List"]
    /\ probeOut = NotDone
    /\ procs = NoProcs
    /\ watch = NoWatch

CallListEntries ==
    /\ probe.fn = "List"
    /\ ~probeOut.done
    /\ \E pre \in {runPrelude(cfg, store, [dirs |-> Dirs, files |-> files])} :
       \E ids \in Orders(DOMAIN cfg.Group), keys \in Orders(DOMAIN pre.env) :
       \E r \in List(cfg, pre, ids, keys) :
           probeOut' = [done |-> TRUE, r |-> r]
    /\ UNCHANGED <<cfg, store, files, run, written, runs, probe, procs, watch>>

NextList == CallListEntries

SpecList == InitList /\ [][NextList]_vars

(***************************************************************************)
(* Claims about List.                                                      *)
(***************************************************************************)

\* The central env file of the stage the state file selects, as a map.
SelectedEnv ==
    LET stage == store.m[cfg.path.segs].stage
        file == IF stage = "prod" THEN ProdPath ELSE CentralPath
    IN readEnv([dirs |-> Dirs, files |-> files], file).env

\* The matches of the keys of M in the group G: the rule, the position of
\* the alternative prefix or plain key in its list, and the source key.
ListMatches(G, M) ==
    {<<"direct", 0, k>> :
        k \in {x \in DOMAIN M : StartsWith(x, G.Prefix \o <<"_">>)}}
    \cup {<<"indirect", ik[1], ik[2]>> :
            ik \in {x \in (DOMAIN G.Replaceable) \X (DOMAIN M) :
                      StartsWith(x[2], G.Replaceable[x[1]] \o <<"_">>)}}
    \cup {<<"plain", i, G.Plain[i]>> :
            i \in {j \in DOMAIN G.Plain : G.Plain[j] \in DOMAIN M}}

\* The entry the claim gives for the match m of the group id.
EntryOf(id, G, M, m) ==
    [Group |-> id, Prefix |-> G.Prefix, Type |-> m[1],
     Name |-> CASE m[1] = "direct" ->
                      SubSeq(m[3], Len(G.Prefix) + 2, Len(m[3]))
                [] m[1] = "indirect" ->
                      SubSeq(m[3], Len(G.Replaceable[m[2]]) + 2, Len(m[3]))
                [] OTHER -> m[3],
     Value |-> M[m[3]]]

\* The matches of every group of the configuration c.
AllMatches(c, M) ==
    UNION {{<<id, m>> : m \in ListMatches(c.Group[id], M)} :
              id \in DOMAIN c.Group}

Listed == probe.fn = "List" /\ probeOut.done /\ probeOut.r.err = ""

\* a is not after b in the order (group id, kind, name).
NotAfter(a, b) ==
    \/ StrLess(IdText(a.Group), IdText(b.Group))
    \/ /\ a.Group = b.Group
       /\ \/ StrLess(TypeText(a.Type), TypeText(b.Type))
          \/ /\ a.Type = b.Type
             /\ (a.Name = b.Name \/ StrLess(a.Name, b.Name))

\* C25: List returns, for the selected stage, exactly one entry per match of
\* a source key in a group (direct, indirect for each alternative prefix,
\* plain for each listed key that is present, with the names of the three
\* rules), and the result is in ascending order of (group id, kind, name).
C25_ListEntries ==
    Listed =>
        LET r == probeOut.r.entries
            ms == AllMatches(cfg, SelectedEnv)
            of(x) == EntryOf(x[1], cfg.Group[x[1]], SelectedEnv, x[2])
        IN /\ \A e \in Range(r) \cup {of(x) : x \in ms} :
                 Cardinality({i \in DOMAIN r : r[i] = e})
                     = Cardinality({x \in ms : of(x) = e})
           /\ \A i, j \in DOMAIN r : i < j => NotAfter(r[i], r[j])

\* Stage prod is selected; the list has entries of the three kinds and of
\* the two groups, one of them the plain key U_X with its value in prod.env.
C25_Witness ==
    /\ Listed
    /\ store = SelectedProd
    /\ {probeOut.r.entries[i].Type : i \in DOMAIN probeOut.r.entries}
           = {"direct", "indirect", "plain"}
    /\ {probeOut.r.entries[i].Group : i \in DOMAIN probeOut.r.entries}
           = {"api", "ui"}
    /\ \E i \in DOMAIN probeOut.r.entries :
           /\ probeOut.r.entries[i].Type = "plain"
           /\ probeOut.r.entries[i].Name = KeyUX
           /\ probeOut.r.entries[i].Value = <<"2">>

(***************************************************************************)
(* The commands run, watch and list of the command line, each on the       *)
(* configuration that Load returned: none of them calls Validate.          *)
(***************************************************************************)
OldPath == <<"repo", "conf", "old.env">>

\* Stage tables: one stage, and a second stage whose file may be missing.
CommandStages ==
    {StageTable, StageTable @@ ("old" :> Rel1(<<"old.env">>))}

CommandFiles ==
    {CentralPath :> FirstCentral,
     (CentralPath :> FirstCentral) @@ (OldPath :> ProdCentral)}

InitCommand ==
    /\ files \in CommandFiles
    /\ \E s \in CommandStages, g \in GroupTables :
        cfg = Load([dirs |-> Dirs, files |-> files], ConfigPath,
                   [Stage |-> s, Group |-> g])
    /\ store = Selected
    /\ runs = 0
    /\ run = Idle
    /\ written = {}
    /\ \E command \in {"run", "watch", "list"} :
        /\ probe = IF command = "list" THEN [fn |-> "List"]
                   ELSE IF command = "watch" THEN [fn |-> "Watch"]
                   ELSE NoProbe
        /\ watch = IF command = "watch" THEN WatchIdle ELSE NoWatch
    /\ probeOut = NotDone
    /\ procs = NoProcs

\* The actions of the commands: run calls cfg.Run(), list calls cfg.List(),
\* watch calls cfg.Watch(), which is followed up to the return of its
\* initial Run.
NextCommand ==
    \/ RunStart
    \/ CallListEntries
    \/ WatchNew
    \/ WatchRun
    \/ WatchRan
    \/ RunGroup
    \/ RunEnvrc
    \/ RunWrite
    \/ RunReturn

SpecCommand == InitCommand /\ [][NextCommand]_vars

\* Validate returns no error on the configuration with the files fs, whatever
\* the order of its two loops.
Validates(fs) ==
    \A stages \in Orders(DOMAIN cfg.Stage), groups \in Orders(DOMAIN cfg.Group) :
        Validate(cfg, [dirs |-> Dirs, files |-> fs], stages, groups) = ""

\* C26: whenever Run (called by the command run or as the initial Run of
\* Watch) or List succeeds on a configuration, Validate succeeds on the same
\* configuration and the same file system state.
C26_ReachedFromValidated ==
    /\ (Returned /\ run.err = "") => Validates(run.before)
    /\ Listed => Validates(files)

\* The part of C26 about Run and the initial Run of Watch.
RunReachedFromValidated == (Returned /\ run.err = "") => Validates(run.before)

\* The part of C26 about List.
ListReachedFromValidated == Listed => Validates(files)

\* The configuration with the stage selected in the state file as its only
\* stage.
SelectedOnly ==
    [cfg EXCEPT !.Stage = [s \in {run.stage} \cap DOMAIN cfg.Stage |->
                              cfg.Stage[s]]]

\* What a successful Run has checked: the two tables, the selected stage and
\* every group, that is Validate without the stages that are not selected.
RunValidatesSelectedStage ==
    (Returned /\ run.err = "") =>
        \A groups \in Orders(DOMAIN cfg.Group) :
            Validate(SelectedOnly, [dirs |-> Dirs, files |-> run.before],
                     <<run.stage>>, groups) = ""

(***************************************************************************)
(* Direct calls of projectRoot, followed one iteration of its loop at a    *)
(* time, in a process with the working directory probe.cwd.                *)
(***************************************************************************)
RootChain == <<"repo", "conf", "sub">>

\* The marker in each directory of the chain: missing, a directory, a file.
RootMarks == [Prefixes(RootChain) -> {"none", "dir", "file"}]

RootFsys(marks) ==
    [dirs |-> Prefixes(RootChain)
              \cup {d \o gitDir.segs : d \in {x \in Prefixes(RootChain) : marks[x] = "dir"}},
     files |-> [f \in {d \o gitDir.segs :
                          d \in {x \in Prefixes(RootChain) : marks[x] = "file"}}
                  |-> <<>>]]

\* Start directories: absolute ones (cleaned or not, existing or not) and
\* ones relative to the working directory.
RootStarts ==
    {Path(TRUE, d) : d \in Prefixes(RootChain)}
    \cup {Path(TRUE, <<"repo", "conf", "..", "conf">>),
          Path(TRUE, <<"repo", "nope">>),
          Path(FALSE, <<".">>), Path(FALSE, <<"conf">>),
          Path(FALSE, <<"sub">>), Path(FALSE, <<"conf", "sub">>),
          Path(FALSE, <<"..">>)}

RootCwds == {Path(TRUE, <<"repo">>), Path(TRUE, <<"repo", "conf">>)}

\* os.Stat in a process with the working directory cwd.
StatAt(fsys, cwd, p) == Stat(fsys, IF p.abs THEN p ELSE Join(cwd, p))

InitRoot ==
    /\ cfg = IdleCfg
    /\ store = Selected
    /\ run = Idle
    /\ written = {}
    /\ runs = 0
    /\ files = EmptyMap
    /\ \E marks \in RootMarks, baseDir \in RootStarts, cwd \in RootCwds :
        /\ probe = [fn |-> "projectRoot", fsys |-> RootFsys(marks),
                    cwd |-> cwd, baseDir |-> baseDir]
        /\ probeOut = [done |-> FALSE, current |-> Clean(baseDir),
                       steps |-> 0, r |-> NoPath]
    /\ procs = NoProcs
    /\ watch = NoWatch

\* A variant of the test of the marker that accepts a regular file too.
markerFoundAnyKind(fsys, cwd, current) ==
    StatAt(fsys, cwd, Join(current, gitDir)) # "missing"

\* err == nil && info.IsDir() for os.Stat(filepath.Join(current, gitDir))
markerFound(fsys, cwd, current) ==
    StatAt(fsys, cwd, Join(current, gitDir)) = "dir"

\* One iteration of the loop of projectRoot.
RootStep ==
    /\ probe.fn = "projectRoot"
    /\ ~probeOut.done
    /\ probeOut' =
        IF markerFound(probe.fsys, probe.cwd, probeOut.current)
        THEN [probeOut EXCEPT !.done = TRUE, !.steps = @ + 1,
                              !.r = probeOut.current]
        ELSE IF Dir(probeOut.current) = probeOut.current
        THEN [probeOut EXCEPT !.done = TRUE, !.steps = @ + 1,
                              !.r = probe.baseDir]
        ELSE [probeOut EXCEPT !.steps = @ + 1,
                              !.current = Dir(probeOut.current)]
    /\ UNCHANGED <<cfg, store, files, run, written, runs, probe, procs, watch>>

NextRoot == RootStep

SpecRoot == InitRoot /\ [][NextRoot]_vars

(***************************************************************************)
(* Claims about projectRoot.                                               *)
(***************************************************************************)

\* The directory that a path of the call denotes.
Denoted(p) == IF p.abs THEN Clean(p) ELSE Join(probe.cwd, p)

\* The start directory and its ancestors that hold the marker as a directory.
MarkedAncestors ==
    {d \in Prefixes(Denoted(probe.baseDir).segs) :
        (d \o gitDir.segs) \in probe.fsys.dirs}

RootReturned == probe.fn = "projectRoot" /\ probeOut.done

\* The result is the nearest marked directory, or the start directory
\* unchanged when there is none.
NearestMarked ==
    IF MarkedAncestors = {} THEN probeOut.r = probe.baseDir
    ELSE /\ Denoted(probeOut.r).segs \in MarkedAncestors
         /\ \A d \in MarkedAncestors : Len(d) <= Len(Denoted(probeOut.r).segs)

\* The walk ends: it has made at most one iteration per segment of the
\* cleaned start directory and one more.
WalkEnds ==
    probe.fn = "projectRoot" =>
        /\ probeOut.steps <= Len(Clean(probe.baseDir).segs) + 1
        /\ ~probeOut.done =>
              probeOut.steps + Len(probeOut.current.segs)
                  = Len(Clean(probe.baseDir).segs)

NearestMarkedOfAbsolute ==
    /\ (RootReturned /\ probe.baseDir.abs) => NearestMarked
    /\ WalkEnds

\* For an absolute start directory the loop returns what projectRoot of the
\* configuration model returns.
SameAsProjectRoot ==
    (RootReturned /\ probe.baseDir.abs) =>
        probeOut.r = projectRoot(probe.fsys, probe.baseDir)

(***************************************************************************)
(* Run in a repository whose group directories hold a file .envrc already. *)
(***************************************************************************)
StaleEnvrc == <<"dotenv_if_exists ", "old", "/.env\n">>

ApiEnvrcPath == <<"repo", "api", ".envrc">>

UiEnvrcPath == <<"repo", "ui", ".envrc">>

InitEnvrc ==
    /\ files = (CentralPath :> FirstCentral) @@ (ApiEnvrcPath :> StaleEnvrc)
                   @@ (UiEnvrcPath :> StaleEnvrc)
    /\ \E s \in Starts :
        /\ cfg = Load([dirs |-> Dirs, files |-> files], ConfigPath, s.doc)
        /\ store = s.st
    /\ runs = 0
    /\ run = Idle
    /\ written = {}
    /\ probe = NoProbe
    /\ probeOut = NotDone
    /\ procs = NoProcs
    /\ watch = NoWatch

SpecEnvrc == InitEnvrc /\ [][Next]_vars

(***************************************************************************)
(* Claims about the file .envrc.                                           *)
(***************************************************************************)

\* The file .envrc in the directory of the group id.
EnvrcPathOf(id) == AbsOf(cfg, cfg.Group[id].Dir).segs \o <<".envrc">>

\* The content of the file path in the files fs, or "absent".
FileAt(fs, path) == IF path \in DOMAIN fs THEN fs[path] ELSE "absent"

\* Every peer of the group id resolves to an existing directory.
PeersResolve(id) ==
    \A p \in Range(cfg.Group[id].DirenvSupport) :
        LET r == resolvePath(cfg, [dirs |-> Dirs, files |-> files],
                             groupOf(cfg, p).Dir)
        IN r.err = "" /\ r.isDir

\* The two lines of the peer p in the file .envrc of the group id.
PeerLines(id, p) ==
    LET rel == Rel(AbsOf(cfg, cfg.Group[id].Dir), AbsOf(cfg, cfg.Group[p].Dir))
    IN <<"watch_file ">> \o PathText(rel.segs) \o <<"/.env\n">>
       \o <<"dotenv_if_exists ">> \o PathText(rel.segs) \o <<"/.env\n">>

RECURSIVE Concat(_)
Concat(ss) == IF ss = <<>> THEN <<>> ELSE Head(ss) \o Concat(Tail(ss))

\* The content the claim gives for the file .envrc of the group id.
ExpectedEnvrc(id) ==
    Concat([i \in DOMAIN cfg.Group[id].DirenvSupport |->
               PeerLines(id, cfg.Group[id].DirenvSupport[i])])

\* The latest Run wrote the file .envrc of the group id for that group.
WroteEnvrc(id) ==
    \E i \in DOMAIN run.log :
        run.log[i].id = id /\ run.log[i].path = EnvrcPathOf(id)

\* The latest Run has dealt with the group id: it went on to another group
\* or returned while at this group.
Reached(id) ==
    /\ run.op = "Run"
    /\ id \in Range(run.visited) \/ (run.pc = "done" /\ run.at = id)

\* The latest Run has called createEnvrc for the group id and went on.
PastEnvrc(id) ==
    /\ run.op = "Run"
    /\ \/ id \in Range(run.visited)
       \/ run.pc = "write" /\ run.cur = id
       \/ run.pc = "done" /\ run.at = id /\ run.err = "ErrWriteEnv"

\* The latest Run returned the error of createEnvrc for the group id.
FailedAtEnvrc(id) ==
    run.op = "Run" /\ run.pc = "done" /\ run.at = id
    /\ run.err = "ErrCreateEnvrc"

Direnv(id) == cfg.Group[id].DirenvSupport # <<>>

\* The file .envrc of the group id is as it was when the latest Run began.
EnvrcUntouched(id) ==
    /\ ~WroteEnvrc(id)
    /\ FileAt(files, EnvrcPathOf(id)) = FileAt(run.before, EnvrcPathOf(id))

\* Run writes no file .envrc for a group with an empty direnv list.
NoEnvrcWithoutDirenv ==
    \A id \in DOMAIN cfg.Group :
        ~Direnv(id) =>
            \A i \in DOMAIN run.log :
                run.log[i].id = id => Last(run.log[i].path) # ".envrc"

C28_WitnessFailed ==
    /\ "api" \in DOMAIN cfg.Group
    /\ FailedAtEnvrc("api")
    /\ ~PeersResolve("api")
    /\ files[ApiEnvrcPath] = StaleEnvrc

(***************************************************************************)
(* Claims about the central env file during Run.                           *)
(***************************************************************************)

\* The central env file is as it was when the latest Run began.
CentralKept ==
    FileAt(files, CentralPath) = FileAt(run.before, CentralPath)

\* Some group delivers into the directory of the central env file.
DeliversBesideCentral ==
    \E id \in DOMAIN cfg.Group :
        AbsOf(cfg, cfg.Group[id].Dir).segs = Front(CentralPath)

\* C29: Run never modifies the central env file: for every configuration
\* that passes validation, the content of the central file of the active
\* stage after Run equals its content before Run.
C29_CentralUnmodified ==
    (run.op = "Run" /\ Validates(run.before)) => CentralKept

\* The statement of C29 for the configurations in which no group has the
\* directory of the central env file as its directory.
CentralUnmodifiedElsewhere ==
    (run.op = "Run" /\ ~DeliversBesideCentral) => CentralKept

(***************************************************************************)
(* Claims about the containment check of resolvePath.                      *)
(***************************************************************************)

\* The cleaned absolute path of the candidate of the call.
TargetOf == AbsOf(probe.c, probe.path)

\* The candidate is an existing file or directory that is the project root
\* or a descendant of it.
ExistsUnderRoot ==
    /\ Under(probe.c.root.segs, TargetOf.segs)
    /\ Stat(probe.fsys, TargetOf) # "missing"

\* The first segment of the candidate below the project root begins with
\* two dots.
DotDotBelowRoot ==
    /\ Len(TargetOf.segs) > Len(probe.c.root.segs)
    /\ TargetOf.segs[Len(probe.c.root.segs) + 1] \in DotDotNames

\* C30: every existing file or directory whose cleaned absolute path is the
\* project root or a descendant of it, also one whose first segment below
\* the root begins with two dots, is resolved successfully by resolvePath.
C30_ResolvesInsideRoot ==
    (probe.fn = "resolvePath" /\ probeOut.done /\ ExistsUnderRoot) =>
        /\ probeOut.r.err = ""
        /\ probeOut.r.path = TargetOf

\* The statement of C30 without the entries whose first segment below the
\* root begins with two dots.
ResolvesInsideRootWithoutDotDotNames ==
    (probe.fn = "resolvePath" /\ probeOut.done /\ ExistsUnderRoot
     /\ ~DotDotBelowRoot) =>
        /\ probeOut.r.err = ""
        /\ probeOut.r.path = TargetOf

\* The entries below the root that the containment check rejects are those
\* whose first segment below the root begins with two dots.
RejectedInsideRoot ==
    (probe.fn = "resolvePath" /\ probeOut.done /\ ExistsUnderRoot
     /\ DotDotBelowRoot) =>
        probeOut.r.err = "ErrOutsideRoot"

====
